---- MODULE Spec2Model ----
(***************************************************************************)
(* The retry pipeline of the Acorn development agent                       *)
(* (agent/agent.py, run_single_task) together with the adapters it calls:  *)
(* generate_implementation, log_attempt, apply_implementation,             *)
(* verify_acorn_code, run_command, git_add_commit_push,                    *)
(* update_todo_mark_complete and save_agent_log.                           *)
(*                                                                         *)
(* Eight specifications share the variables:                               *)
(*   Spec          one call of run_single_task, step by step;              *)
(*   TodoSpec      extract_next_task and update_todo_mark_complete         *)
(*                 (agent/file_ops.py) applied in turn to a backlog;       *)
(*   AgentSpec     one call of run_agent in manual, interactive or backlog *)
(*                 mode, a task being followed one call at a time;         *)
(*   GenSpec       generate_implementation (agent/llm_interface.py) from   *)
(*                 the backend's answer to the proposal it returns;        *)
(*   RollbackSpec  the rollback `git checkout .` run on any working tree;  *)
(*   AnalyzeSpec   analyze_logs (agent/log_utils.py) on a log directory;   *)
(*   DevSpec       run_agent of the standalone driver acorn_dev_agent.py;  *)
(*   ContextSpec   the three functions that load the documentation context *)
(*                 file, on files of every length around their limits.     *)
(*                                                                         *)
(* The generator, the verifier, git and the operator are external: what    *)
(* they return is an input, drawn from a small set at the step that calls  *)
(* them.  The working tree and the git history are the environment the     *)
(* calls act on.                                                           *)
(***************************************************************************)
EXTENDS Integers, Sequences, FiniteSets, TLC

----------------------------------------------------------------------------
(* Bounds of the model and constants of the program                        *)

\* agent/agent.py:22
MAX_FIX_ATTEMPTS == 3

\* A proposal lists at most MaxFiles file entries.
MaxFiles == 2

\* The attempt bounds a run is checked for: the program's constant and the
\* smaller ones (the claims speak of every attempt bound N >= 1).
AttemptBounds == 1..MAX_FIX_ATTEMPTS

\* Proposal paths are numbered; the entry at position i of a proposal names
\* path i (or has no 'path' key: NoPath).  TodoPath is TODO.md.
Paths == 1..MaxFiles
TodoPath == 0
NoPath == -1
AllPaths == Paths \cup {TodoPath}

\* A key a dict does not have, and Python's None.
Absent == "absent"
None == "None"

\* The text (stdout + stderr) the verifier prints in attempt k: an opaque
\* text per run, the texts of different runs being different.
OutputOf(k) == "acorn output of attempt " \o ToString(k)

\* Exit codes of an external command: zero and non-zero.
ExitCodes == {0, 1}

FinalStatuses ==
    { "completed_successfully", "completed_no_changes", "failed_json_parsing",
      "failed_verification", "failed_implementation_error", "failed_commit",
      "failed_unknown" }

----------------------------------------------------------------------------
(* Proposals: what generate_implementation returns                         *)

\* One entry of a proposal's "files" list.  The keys 'path' and 'content'
\* may be missing; 'action' is create, modify or something else.
FileSpecAt(i) ==
    { [path |-> i, action |-> "create", content |-> "text"],
      [path |-> i, action |-> "create", content |-> Absent],
      [path |-> i, action |-> "modify", content |-> "text"],
      [path |-> i, action |-> "modify", content |-> Absent],
      [path |-> i, action |-> "delete", content |-> Absent],
      [path |-> NoPath, action |-> "create", content |-> "text"] }

RECURSIVE FileLists(_)
FileLists(n) ==
    IF n = 0 THEN { <<>> }
    ELSE LET shorter == FileLists(n - 1)
         IN  shorter \cup
             { Append(fs, f) : fs \in {s \in shorter : Len(s) = n - 1},
                               f \in FileSpecAt(n) }

\* json.loads succeeded and gave a dict: 'files' is a list or is missing.
ParsedProposals ==
    { [kind |-> "object", raw_response |-> FALSE, has_files |-> TRUE,
       files |-> fs, commit_message |-> "msg"] : fs \in FileLists(MaxFiles) }
    \cup
    { [kind |-> "object", raw_response |-> FALSE, has_files |-> FALSE,
       files |-> <<>>, commit_message |-> "msg"] }

\* llm_interface.py:112-120: the dict returned on json.JSONDecodeError.
ParseFailure ==
    [kind |-> "object", raw_response |-> TRUE, has_files |-> TRUE,
     files |-> <<>>, commit_message |-> "Failed implementation attempt"]

\* json.loads succeeded but the value is a list, a number, a string or null.
NonObject ==
    [kind |-> "nonobject", raw_response |-> FALSE, has_files |-> FALSE,
     files |-> <<>>, commit_message |-> Absent]

Proposals == ParsedProposals \cup {ParseFailure, NonObject}

\* The value of `implementation` before the first generation.
NoProposal ==
    [kind |-> "unset", raw_response |-> FALSE, has_files |-> FALSE,
     files |-> <<>>, commit_message |-> Absent]

\* The value of `verification` before verify_acorn_code has run.
NoVerification == [success |-> FALSE, output |-> None]

\* implementation.get('files', [])
FilesOf(impl) == IF impl.has_files THEN impl.files ELSE <<>>

----------------------------------------------------------------------------
(* The backlog document TODO.md (file_ops.py:23-69)                        *)
(*                                                                         *)
(* A document is a sequence of tokens.  The texts the two regular          *)
(* expressions name literally are one token each; a description is made of *)
(* letters.  No token but Space and Newline holds white space at either    *)
(* end and no letter occurs inside another token, so a match of the        *)
(* patterns on the text is a match on the tokens.  The alphabet has no     *)
(* backslash: re.sub reads the replacement as a template, which is the     *)
(* text itself for such descriptions.                                      *)

Unchecked == "- [ ]"
Checked == "- [x]"
NextStep == "**NEXT STEP**:"
StruckNextStep == "~~NEXT STEP~~:"
Space == " "
Newline == "\n"
Letters == {"a", "b"}

\* A document has at most MaxLines lines.
MaxLines == 2

\* The regular expression class \s.
IsSpace(t) == t \in {Space, Newline}

Max(S) == CHOOSE x \in S : \A y \in S : y <= x
Min(S) == CHOOSE x \in S : \A y \in S : x <= y

\* str.strip()
RECURSIVE strip(_)
strip(s) ==
    IF s = <<>> THEN s
    ELSE IF IsSpace(Head(s)) THEN strip(Tail(s))
    ELSE IF IsSpace(s[Len(s)]) THEN strip(SubSeq(s, 1, Len(s) - 1))
    ELSE s

\* `\s*(.+?)(?:\n|$)` tried at position p: where the group starts, 0 when
\* there is no match.  \s* is greedy and backtracks: the group starts at the
\* last position that is reached over white space only and holds a
\* character other than a newline.
GroupStart(content, p) ==
    LET starts == { j \in p..Len(content) :
                       /\ content[j] # Newline
                       /\ \A m \in p..(j - 1) : IsSpace(content[m]) }
    IN  IF starts = {} THEN 0 ELSE Max(starts)

\* (.+?)(?:\n|$) from position j: the lazy group ends where the line ends.
GroupEnd(content, j) ==
    Max({ e \in j..Len(content) : \A m \in j..e : content[m] # Newline })

\* The group of the first match of `<literal>\s*(.+?)(?:\n|$)`, stripped;
\* found is FALSE when the pattern matches nowhere.
FirstMatch(content, literal) ==
    LET at == { i \in DOMAIN content :
                   content[i] = literal /\ GroupStart(content, i + 1) # 0 }
    IN  IF at = {} THEN [found |-> FALSE, group |-> <<>>]
        ELSE LET j == GroupStart(content, Min(at) + 1)
             IN  [found |-> TRUE,
                  group |-> strip(SubSeq(content, j, GroupEnd(content, j)))]

\* extract_next_task returned None.
NoTask == [found |-> FALSE, description |-> <<>>, type |-> "none"]

\* file_ops.py:23-49
extract_next_task(content) ==
    LET match   == FirstMatch(content, NextStep)
        matches == FirstMatch(content, Unchecked)
    IN  IF match.found
        THEN [found |-> TRUE, description |-> match.group, type |-> "next_step"]
        ELSE IF matches.found
        THEN [found |-> TRUE, description |-> matches.group, type |-> "unchecked"]
        ELSE NoTask

\* \s* from position p on: the first position that holds no white space.
SkipSpaces(content, p) ==
    Min({ q \in p..(Len(content) + 1) :
             q > Len(content) \/ ~IsSpace(content[q]) })

\* re.escape(text) at position p.
LiteralAt(content, p, text) ==
    /\ p + Len(text) - 1 <= Len(content)
    /\ \A m \in DOMAIN text : content[p + m - 1] = text[m]

\* file_ops.py:59-60: the two patterns, tried at position i.  The value is
\* the position of the last token of the match, 0 when there is no match.
\*   1: - \[ \]\s*\*\*NEXT STEP\*\*:\s*<description>
\*   2: - \[ \]\s*<description>
MatchEnd(which, content, i, task_description) ==
    IF content[i] # Unchecked THEN 0
    ELSE LET q == SkipSpaces(content, i + 1)
         IN  IF which = 2
             THEN IF LiteralAt(content, q, task_description)
                  THEN q + Len(task_description) - 1 ELSE 0
             ELSE IF q <= Len(content) /\ content[q] = NextStep
             THEN LET r == SkipSpaces(content, q + 1)
                  IN  IF LiteralAt(content, r, task_description)
                      THEN r + Len(task_description) - 1 ELSE 0
             ELSE 0

\* file_ops.py:59-60: the two replacements.
Replacement(which, task_description) ==
    IF which = 1
    THEN << Checked, Space, StruckNextStep, Space >> \o task_description
    ELSE << Checked, Space >> \o task_description

\* re.search(pattern, content)
Matches(which, content, task_description) ==
    \E i \in DOMAIN content : MatchEnd(which, content, i, task_description) # 0

\* re.sub(pattern, replacement, content) from position i on: every match,
\* leftmost first, is replaced.
RECURSIVE ReSub(_, _, _, _)
ReSub(which, content, i, task_description) ==
    IF i > Len(content) THEN <<>>
    ELSE LET e == MatchEnd(which, content, i, task_description)
         IN  IF e # 0
             THEN Replacement(which, task_description)
                     \o ReSub(which, content, e + 1, task_description)
             ELSE << content[i] >> \o ReSub(which, content, i + 1, task_description)

\* file_ops.py:52-69: the first pattern that matches is substituted and the
\* document is written back.
update_todo_mark_complete(content, task_description) ==
    IF Matches(1, content, task_description)
    THEN ReSub(1, content, 1, task_description)
    ELSE IF Matches(2, content, task_description)
    THEN ReSub(2, content, 1, task_description)
    ELSE content

\* The lines a backlog is written with: unchecked and checked items, NEXT
\* STEP markers with and without a checkbox, a marker and a checkbox with
\* nothing after them, plain text and the empty line.
BacklogLines ==
    { << Unchecked, Space, "a" >>,
      << Unchecked, Space, "a", "b" >>,
      << Unchecked, Space, "b" >>,
      << Checked, Space, "a" >>,
      << NextStep, Space, "a" >>,
      << Unchecked, Space, NextStep, Space, "a" >>,
      << NextStep >>,
      << Unchecked, Space >>,
      << "b" >>,
      << >> }

\* The documents of n lines, each line ended by a newline.
RECURSIVE DocumentsOf(_)
DocumentsOf(n) ==
    IF n = 0 THEN { <<>> }
    ELSE { doc \o line \o << Newline >> :
              doc \in DocumentsOf(n - 1), line \in BacklogLines }

\* With and without the newline at the end of the file.
Documents ==
    LET ended == UNION { DocumentsOf(n) : n \in 0..MaxLines }
    IN  ended \cup { SubSeq(doc, 1, Len(doc) - 1) : doc \in ended \ { <<>> } }

\* The descriptions update_todo_mark_complete is called with.
Descriptions == { << "a" >>, << "b" >>, << "a", "b" >> }

----------------------------------------------------------------------------
(* The backend's response (llm_interface.py:100-120)                       *)
(*                                                                         *)
(* A response is a sequence of tokens.  Open and Close are the two ends of *)
(* a proposal object whose "files" value is written as one JSON string;    *)
(* what stands between them is the text of that string.  Every brace of a  *)
(* token is its first or its last character and every fence is a token of  *)
(* its own, so a match of the pattern on the text is a match on tokens.    *)

\* FENCE stands for the three backquotes of a code fence.
FenceJson == "FENCEjson"
Fence == "FENCE"
Open == "{\"files\": \""
Close == "\"}"
Brace == "}"
EmptyList == "[]"
Null == "null"

\* The text of a file holds at most MaxContent tokens.
MaxContent == 3

\* The tokens a JSON string may hold as they are: no quote, no control
\* character.
StringTokens == Letters \cup {Brace, Fence, FenceJson, Space, EmptyList, Null}

\* The token begins with a brace, ends with a brace, begins with a fence.
StartsWithBrace(t) == t = Open
EndsWithBrace(t) == t \in {Close, Brace}
StartsWithFence(t) == t \in {Fence, FenceJson}

\* The group and what follows it, from the brace at position q on: the position of the
\* closing brace of the lazy group, the first one that white space and a
\* fence follow; 0 when there is none.
LazyGroupEnd(text, q) ==
    LET ends == { e \in (q + 1)..Len(text) :
                     /\ EndsWithBrace(text[e])
                     /\ SkipSpaces(text, e + 1) <= Len(text)
                     /\ StartsWithFence(text[SkipSpaces(text, e + 1)]) }
    IN  IF ends = {} THEN 0 ELSE Min(ends)

\* The pattern tried at position p: the json fence, white space, the group.
JsonBlockAt(text, p) ==
    LET q == SkipSpaces(text, p + 1)
    IN  /\ text[p] = FenceJson
        /\ q <= Len(text)
        /\ StartsWithBrace(text[q])
        /\ LazyGroupEnd(text, q) # 0

\* llm_interface.py:104: re.search with re.DOTALL for a json fence, white
\* space, a group that begins and ends with a brace and is as short as can
\* be, white space and a fence; the leftmost match and its group 1.
json_match(text) ==
    LET at == { p \in DOMAIN text : JsonBlockAt(text, p) }
    IN  IF at = {} THEN [found |-> FALSE, group |-> <<>>]
        ELSE LET q == SkipSpaces(text, Min(at) + 1)
             IN  [found |-> TRUE, group |-> SubSeq(text, q, LazyGroupEnd(text, q))]

\* llm_interface.py:111: json.loads.  White space around the document is
\* skipped; a proposal object is Open, the text of a string, Close; a list
\* and null are documents too; anything else is a JSONDecodeError.
json_loads(text) ==
    LET doc == strip(text)
    IN  IF /\ Len(doc) >= 2
           /\ doc[1] = Open
           /\ doc[Len(doc)] = Close
           /\ \A m \in 2..(Len(doc) - 1) : doc[m] \in StringTokens
        THEN [ok |-> TRUE, kind |-> "object", files |-> SubSeq(doc, 2, Len(doc) - 1)]
        ELSE IF doc \in { << EmptyList >>, << Null >> }
        THEN [ok |-> TRUE, kind |-> "nonobject", files |-> <<>>]
        ELSE [ok |-> FALSE, kind |-> "none", files |-> <<>>]

\* What generate_implementation returns: the parsed value as it is
\* (line 111), or the dict of lines 114-120 with the text under
\* 'raw_response'.
Loaded(text) ==
    LET value == json_loads(text)
    IN  IF value.ok
        THEN [kind |-> value.kind, parse_failed |-> FALSE, files |-> value.files,
              raw_response |-> <<>>]
        ELSE [kind |-> "object", parse_failed |-> TRUE, files |-> <<>>,
              raw_response |-> text]

\* llm_interface.py:104-120 as a whole.
generate_implementation(text) ==
    LET found == json_match(text)
    IN  Loaded(IF found.found THEN found.group ELSE text)

\* The texts of a file of a proposal.
RECURSIVE ContentsOf(_)
ContentsOf(n) ==
    IF n = 0 THEN { <<>> }
    ELSE LET shorter == ContentsOf(n - 1)
         IN  shorter \cup
             { Append(c, t) : c \in {s \in shorter : Len(s) = n - 1},
                              t \in {"a", Brace, Fence, Space} }

\* The valid proposal objects.
ProposalObjects == { << Open >> \o c \o << Close >> : c \in ContentsOf(MaxContent) }

\* The object inside a fenced json block, with and without prose around the
\* block and white space inside it.
Fenced(J) ==
    { before \o << FenceJson >> \o pad \o J \o pad \o << Fence >> \o after :
         before \in { <<>>, << "a", Newline >> },
         pad    \in { <<>>, << Newline >> },
         after  \in { <<>>, << Newline, "b" >> } }

\* What the backend answers: a proposal object alone, the object in a fenced
\* block, or a text that is no proposal object (a list, null, prose, an
\* object cut short, nothing).
BackendAnswers ==
    { [json |-> J, text |-> J] : J \in ProposalObjects }
    \cup UNION { { [json |-> J, text |-> t] : t \in Fenced(J) } : J \in ProposalObjects }
    \cup { [json |-> <<>>, text |-> t] :
              t \in { << EmptyList >>, << Null >>, << "a" >>, << Open, "a" >>, <<>>,
                      << FenceJson, Newline, EmptyList, Newline, Fence >> } }

\* No call of generate_implementation is followed.
NoAnswer == [json |-> <<>>, text |-> <<>>]
NotReturned == [kind |-> "unset", parse_failed |-> FALSE, files |-> <<>>,
                raw_response |-> <<>>]

----------------------------------------------------------------------------
(* The log directory (log_utils.py:113-220)                                *)

\* The log directory holds at most MaxLogFiles files.
MaxLogFiles == 2

\* A file of the log directory.  named tells whether its name begins with
\* task_ and ends with .json; kind is what reading it gives:
\*   "tasklog"     a TaskLog written by save_agent_log
\*   "unreadable"  open or read raises (OSError, UnicodeDecodeError)
\*   "not_json"    json.load raises JSONDecodeError
\*   "list"        valid JSON that is no object
\*   "object"      a JSON object with none of the keys of a TaskLog
\* attempts and files_modified are the lengths of the two lists.
LogFile(named, kind, status, errors) ==
    [named |-> named, kind |-> kind, final_status |-> status, error_messages |-> errors,
     attempts |-> IF kind = "tasklog" THEN 1 + 2 * Len(errors) ELSE 0,
     files_modified |-> IF kind = "tasklog" THEN 1 ELSE 0]

LogFiles ==
    { LogFile(TRUE, "tasklog", "completed_successfully", <<>>),
      LogFile(TRUE, "tasklog", "failed_verification", << "Verification error" >>),
      LogFile(TRUE, "unreadable", Absent, <<>>),
      LogFile(TRUE, "not_json", Absent, <<>>),
      LogFile(TRUE, "list", Absent, <<>>),
      LogFile(TRUE, "object", Absent, <<>>),
      LogFile(FALSE, "tasklog", "completed_successfully", <<>>) }

RECURSIVE DirectoriesOf(_)
DirectoriesOf(n) ==
    IF n = 0 THEN { <<>> }
    ELSE LET shorter == DirectoriesOf(n - 1)
         IN  shorter \cup
             { Append(d, f) : d \in {s \in shorter : Len(s) = n - 1}, f \in LogFiles }

\* The directory does not exist, or it holds some files.
LogDirectories ==
    { [exists |-> FALSE, files |-> <<>>] }
    \cup { [exists |-> TRUE, files |-> d] : d \in DirectoriesOf(MaxLogFiles) }

\* log_utils.py:130-141; warnings counts the warnings printed at line 183,
\* avg_attempts is kept as a fraction and common_errors as the list of the
\* keys counted, a key as many times as it was counted.
NoStats ==
    [ total_tasks |-> 0, successful |-> 0, failed_verification |-> 0,
      failed_json_parsing |-> 0, failed_commit |-> 0, completed_no_changes |-> 0,
      other_failures |-> 0, total_files_modified |-> 0,
      avg_attempts |-> [num |-> 0, den |-> 1],
      common_errors |-> <<>>, warnings |-> 0 ]

\* The rollbacks that are run in a row.
MaxRollbacks == 2

\* The states a working tree can be in.
TreeStatuses == {"absent", "clean", "modified", "untracked", "staged"}
Trees == [AllPaths -> TreeStatuses]

----------------------------------------------------------------------------
(* The documentation context file and its three loading functions:         *)
(* load_acorn_context of the package (agent/file_ops.py:72-99),             *)
(* load_context of acorn_agent.py (39-55) and load_acorn_context of         *)
(* acorn_dev_agent.py (176-201).  A text is followed by its length in       *)
(* characters.                                                              *)

\* acorn_agent.py:49: content = f.read(30000)
ContextLimit == 30000

\* acorn_dev_agent.py:197: acorn_docs = f.read(20000); the same number is in
\* the comment of agent/file_ops.py:92.
DocsLimit == 20000

\* acorn_agent.py:51: the length of "\n\n[Context truncated for length...]".
TruncationNoteLength == 35

\* How far the lengths of the context file go beyond 0 and around the two
\* limits.
MaxExcess == 20

Loaders == {"agent.file_ops", "acorn_agent", "acorn_dev_agent"}

FileLengths ==
    (0..MaxExcess) \cup
    UNION { (limit - MaxExcess)..(limit + MaxExcess) : limit \in {DocsLimit, ContextLimit} }

\* The context file: missing, present and not readable as text, or present
\* with a content of some length.
ContextFiles ==
    {[exists |-> FALSE, readable |-> FALSE, length |-> 0]} \cup
    {[exists |-> TRUE, readable |-> r, length |-> n] : r \in BOOLEAN, n \in FileLengths}

\* No documentation part: nothing was appended to the context.
NoDocs == [included |-> FALSE, read |-> 0, length |-> 0, says_truncated |-> FALSE]

\* f.read(n): the first n characters of the file, all of it when it is
\* shorter.
read(length, n) == IF length < n THEN length ELSE n

\* f.read(): the whole file.
read_all(length) == length

\* agent/file_ops.py:89-97: the file is read whole under the header
\* "=== Acorn Documentation ==="; the bounded read is commented out.  open
\* and read are not inside a try.
load_acorn_context(file) ==
    IF ~file.exists THEN [docs |-> NoDocs, raised |-> FALSE]
    ELSE IF ~file.readable THEN [docs |-> NoDocs, raised |-> TRUE]
    ELSE [docs |-> [included |-> TRUE, read |-> read_all(file.length),
                    length |-> read_all(file.length), says_truncated |-> FALSE],
          raised |-> FALSE]

\* acorn_agent.py:39-55: at most 30000 characters are read and the note is
\* appended when exactly 30000 came back; any exception gives "".
load_context(file) ==
    IF ~file.exists \/ ~file.readable THEN [docs |-> NoDocs, raised |-> FALSE]
    ELSE LET content == read(file.length, ContextLimit)
         IN  [docs |-> [included |-> TRUE, read |-> content,
                        length |-> IF content = ContextLimit
                                   THEN content + TruncationNoteLength ELSE content,
                        says_truncated |-> content = ContextLimit],
              raised |-> FALSE]

\* acorn_dev_agent.py:193-199: at most 20000 characters are read, under the
\* header "=== Acorn Documentation (Truncated) ===" whatever was read.
dev_load_acorn_context(file) ==
    IF ~file.exists THEN [docs |-> NoDocs, raised |-> FALSE]
    ELSE IF ~file.readable THEN [docs |-> NoDocs, raised |-> TRUE]
    ELSE [docs |-> [included |-> TRUE, read |-> read(file.length, DocsLimit),
                    length |-> read(file.length, DocsLimit), says_truncated |-> TRUE],
          raised |-> FALSE]

----------------------------------------------------------------------------
(* State                                                                   *)

VARIABLES
    pc,                  \* position in run_single_task
    max_fix_attempts,    \* the attempt bound N of this run
    update_todo,         \* parameter: backlog mode marks TODO.md
    attempt,             \* loop variable of `for attempt in range(N)`
    error_context,       \* None (the empty sequence) or the parts of the text
    implementation,      \* the proposal of the current attempt
    modified_files,      \* what apply_implementation returned
    verification,        \* (success, output) of verify_acorn_code
    log_entry,           \* the TaskLog being built
    logs,                \* the TaskLogs written by save_agent_log
    result,              \* the value run_single_task returned
    tree,                \* git status of every path of the working tree
    commits,             \* commits created in the repository
    events,              \* the external calls made so far, in order
    agent_pc,            \* position in run_agent, or in the backlog round trip
    mode,                \* run_agent: "manual", "interactive" or "backlog"
    max_iterations,      \* run_agent: parameter
    iteration,           \* run_agent: loop variable; the tasks entered, outside backlog mode
    todo,                \* the content of TODO.md
    task,                \* what extract_next_task returned last
    marked,              \* the last call of update_todo_mark_complete
    calls,               \* the calls of the current iteration of run_agent, in order
    todo_head,           \* the content of TODO.md in the last commit
    gen_pc,              \* position in generate_implementation, past the backend call
    backend,             \* what the backend was made to answer
    response,            \* generate_implementation: the local `response`
    proposal,            \* what generate_implementation returned
    rollbacks,           \* the rollbacks run on the tree, in order
    analyzer_pc,         \* position in analyze_logs
    log_dir,             \* the files of the log directory: None when it does not exist
    file_index,          \* analyze_logs: the files read so far
    stats,               \* analyze_logs: the tallies
    all_tasks,           \* analyze_logs: the documents loaded
    ctx_pc,              \* position in the function that loads the documentation
    loader,              \* which of the three loading functions is followed
    context_file,        \* the context file: whether it exists, and its length
    docs                 \* the documentation part of the context that was built

\* The caller's side of run_single_task, which its steps leave alone.
caller == << agent_pc, mode, max_iterations, iteration, todo, task, marked, calls >>

\* generate_implementation past the backend call, followed on its own.
generator == << gen_pc, backend, response, proposal >>

\* analyze_logs.
analyzer == << analyzer_pc, log_dir, file_index, stats, all_tasks >>

\* What no step of run_single_task and of run_agent changes: the last commit's
\* TODO.md (git_add_commit_push adds the proposal's files only) and the state
\* of the functions followed on their own.
\* The loading of the documentation context, followed on its own.
context == << ctx_pc, loader, context_file, docs >>

others == << todo_head, generator, rollbacks, analyzer, context >>

vars == << pc, max_fix_attempts, update_todo, attempt, error_context, implementation, modified_files,
           verification, log_entry, logs, result, tree, commits, events, caller, others >>

params == << max_fix_attempts, update_todo, caller, others >>

\* No call of update_todo_mark_complete was made yet.
NotMarked == [content |-> <<>>, task |-> NoTask, description |-> <<>>, made |-> FALSE]

\* run_single_task is followed on its own: there is no caller.
NoCaller ==
    /\ agent_pc = "none"
    /\ mode = "none"
    /\ max_iterations = 0
    /\ iteration = 0
    /\ todo = <<>>
    /\ task = NoTask
    /\ marked = NotMarked
    /\ calls = <<>>

\* generate_implementation is not followed.
GeneratorIdle ==
    /\ gen_pc = "none"
    /\ backend = NoAnswer
    /\ response = <<>>
    /\ proposal = NotReturned

\* analyze_logs is not running.
AnalyzerIdle ==
    /\ analyzer_pc = "none"
    /\ log_dir = [exists |-> FALSE, files |-> <<>>]
    /\ file_index = 0
    /\ stats = NoStats
    /\ all_tasks = <<>>

\* No documentation is being loaded.
ContextIdle ==
    /\ ctx_pc = "none"
    /\ loader = "none"
    /\ context_file = [exists |-> FALSE, readable |-> FALSE, length |-> 0]
    /\ docs = NoDocs

\* No function is followed on its own.
Elsewhere ==
    /\ GeneratorIdle
    /\ rollbacks = <<>>
    /\ AnalyzerIdle
    /\ ContextIdle

\* One external call or file write.  attempt is 1-based.
Ev(name, k, path, rc, text) ==
    [ev |-> name, attempt |-> k, path |-> path, rc |-> rc, text |-> text]

\* log_utils.py:53-64
create_log_entry ==
    [ attempts |-> <<>>, final_status |-> None, files_modified |-> <<>>,
      error_messages |-> <<>>, total_time_seconds |-> None ]

\* The working tree before the task: odd paths are tracked and unmodified,
\* even paths do not exist yet; TODO.md is tracked and unmodified.
InitTree ==
    [p \in AllPaths |-> IF p = TodoPath \/ p % 2 = 1 THEN "clean" ELSE "absent"]

\* The state when the attempt loop is entered (agent.py:42-57).
Init ==
    /\ pc = "loop"
    /\ max_fix_attempts \in AttemptBounds
    /\ update_todo \in BOOLEAN
    /\ attempt = 0
    /\ error_context = <<>>
    /\ implementation = NoProposal
    /\ modified_files = <<>>
    /\ verification = NoVerification
    /\ log_entry = create_log_entry
    /\ logs = <<>>
    /\ result = "pending"
    /\ tree = InitTree
    /\ commits = 0
    /\ events = <<>>
    /\ NoCaller
    /\ todo_head = <<>>
    /\ Elsewhere

----------------------------------------------------------------------------
(* The working tree under git                                              *)
(*   "absent"    the path does not exist                                   *)
(*   "clean"     tracked, equal to HEAD                                    *)
(*   "modified"  tracked, written since, not staged                        *)
(*   "untracked" created by a write, unknown to git                        *)
(*   "staged"    added to the index, not committed                         *)

\* file_ops.py write_file: open(path, 'w') creates or overwrites the file.
write_file(t, p) ==
    [t EXCEPT ![p] = CASE t[p] = "absent" -> "untracked"
                       [] t[p] = "clean"  -> "modified"
                       [] t[p] = "staged" -> "modified"
                       [] OTHER           -> t[p]]

\* Mutant of git_checkout_all: a staged path is taken out of the index and
\* keeps its content.
git_checkout_all_Unstage(t, rc) ==
    IF rc = 0
    THEN [p \in DOMAIN t |-> CASE t[p] = "modified" -> "clean"
                               [] t[p] = "staged"   -> "modified"
                               [] OTHER             -> t[p]]
    ELSE t

\* `git checkout .` (agent.py:124, 130): on exit 0 every tracked path is
\* restored from the index, untracked files are left alone; on a non-zero
\* exit nothing was restored.
git_checkout_all(t, rc) ==
    IF rc = 0
    THEN [p \in DOMAIN t |-> IF t[p] = "modified" THEN "clean" ELSE t[p]]
    ELSE t

\* `git add <file>` with exit 0 (git_ops.py:30).
git_add(t, p) ==
    [t EXCEPT ![p] = IF t[p] \in {"modified", "untracked"} THEN "staged" ELSE t[p]]

\* `git commit -m` with exit 0 (git_ops.py:36-40).
git_commit(t) ==
    [p \in DOMAIN t |-> IF t[p] = "staged" THEN "clean" ELSE t[p]]

\* The paths holding content that is not in HEAD.
Uncommitted(t) == {p \in DOMAIN t : t[p] \in {"modified", "untracked", "staged"}}

----------------------------------------------------------------------------
(* apply_implementation (file_ops.py:127-151)                              *)

\* What one entry does: "write", "skip" (nothing written, nothing listed)
\* or "raise" (KeyError: file_spec['path'] at line 132, file_spec['content']
\* at line 141).
EntryEffect(f) ==
    CASE f.path = NoPath                              -> "raise"
      [] f.action = "create" /\ f.content = Absent    -> "raise"
      [] f.action = "create"                          -> "write"
      [] f.action = "modify" /\ f.content # Absent    -> "write"
      [] OTHER                                        -> "skip"

\* The loop over the entries from position i on.  st carries the tree, the
\* list of modified files, the writes made and whether a KeyError ended it.
RECURSIVE ApplyFrom(_, _, _, _)
ApplyFrom(files, i, k, st) ==
    IF i > Len(files) THEN st
    ELSE LET f == files[i]
             e == EntryEffect(f)
         IN  CASE e = "raise" -> [st EXCEPT !.raised = TRUE]
               [] e = "write" ->
                    ApplyFrom(files, i + 1, k,
                        [st EXCEPT !.tree = write_file(st.tree, f.path),
                                   !.modified = Append(st.modified, f.path),
                                   !.events = Append(st.events,
                                                Ev("write", k, f.path, 0, ""))])
               [] OTHER -> ApplyFrom(files, i + 1, k, st)

apply_implementation(t, impl, k) ==
    ApplyFrom(FilesOf(impl), 1, k,
              [tree |-> t, modified |-> <<>>, events |-> <<>>, raised |-> FALSE])

----------------------------------------------------------------------------
(* git_add_commit_push (git_ops.py:25-69)                                  *)

\* Mutant of AddFrom: a failed `git add` does not end the loop.
RECURSIVE AddFrom_IgnoreFailure(_, _, _, _, _)
AddFrom_IgnoreFailure(files, i, k, addFail, st) ==
    IF i > Len(files) THEN st
    ELSE AddFrom_IgnoreFailure(files, i + 1, k, addFail,
             [st EXCEPT !.tree = IF i = addFail THEN @ ELSE git_add(@, files[i]),
                        !.events = Append(@, Ev("add", k, files[i],
                                               IF i = addFail THEN 1 ELSE 0, ""))])

\* The `git add` loop: addFail is the position of the first add that exits
\* non-zero (0: none does).
RECURSIVE AddFrom(_, _, _, _, _)
AddFrom(files, i, k, addFail, st) ==
    IF i > Len(files) THEN st
    ELSE IF i = addFail
         THEN [st EXCEPT !.ok = FALSE,
                         !.events = Append(st.events, Ev("add", k, files[i], 1, ""))]
         ELSE AddFrom(files, i + 1, k, addFail,
                  [st EXCEPT !.tree = git_add(st.tree, files[i]),
                             !.events = Append(st.events, Ev("add", k, files[i], 0, ""))])

\* Mutant of git_add_commit_push: a declined confirmation does not stop the
\* push.
git_add_commit_push_PushAnyway(t, files, msg, push, confirm, k, addFail, commitRc, pushRc, answer) ==
    LET added == AddFrom(files, 1, k, addFail,
                     [tree |-> t, ok |-> TRUE, events |-> <<>>, commits |-> 0])
    IN  IF ~added.ok THEN added
        ELSE IF commitRc # 0
        THEN [added EXCEPT !.ok = FALSE,
                           !.events = Append(added.events, Ev("commit", k, NoPath, commitRc, msg))]
        ELSE LET committed ==
                     [added EXCEPT !.tree = git_commit(added.tree),
                                   !.commits = 1,
                                   !.events = Append(added.events, Ev("commit", k, NoPath, 0, msg))]
                 asked ==
                     IF confirm /\ answer \notin {"y", "yes"}
                     THEN Append(committed.events, Ev("decline_push", k, NoPath, 0, answer))
                     ELSE committed.events
             IN  IF ~push THEN committed
                 ELSE [committed EXCEPT
                           !.ok = (pushRc = 0),
                           !.events = Append(asked, Ev("push", k, NoPath, pushRc, ""))]

\* The whole function.  commitRc and pushRc are the exit codes of git commit
\* and git push, answer is what the operator types at the confirmation.
git_add_commit_push(t, files, msg, push, confirm, k, addFail, commitRc, pushRc, answer) ==
    LET added == AddFrom(files, 1, k, addFail,
                     [tree |-> t, ok |-> TRUE, events |-> <<>>, commits |-> 0])
    IN  IF ~added.ok THEN added
        ELSE IF commitRc # 0
        THEN [added EXCEPT !.ok = FALSE,
                           !.events = Append(added.events, Ev("commit", k, NoPath, commitRc, msg))]
        ELSE LET committed ==
                     [added EXCEPT !.tree = git_commit(added.tree),
                                   !.commits = 1,
                                   !.events = Append(added.events, Ev("commit", k, NoPath, 0, msg))]
             IN  IF ~push THEN committed
                 ELSE IF confirm /\ answer \notin {"y", "yes"}
                 THEN [committed EXCEPT
                           !.events = Append(committed.events, Ev("decline_push", k, NoPath, 0, answer))]
                 ELSE [committed EXCEPT
                           !.ok = (pushRc = 0),
                           !.events = Append(committed.events, Ev("push", k, NoPath, pushRc, ""))]

----------------------------------------------------------------------------
(* Pieces of run_single_task                                               *)

\* Mutant of InRange: the loop runs over range(MAX_FIX_ATTEMPTS - 1).
InRange_OneShort(a, n) == a < n - 1

\* `for attempt in range(MAX_FIX_ATTEMPTS)` (agent.py:58): the loop test.
InRange(a, n) == a < n

\* Mutant of AttemptsRemain: off by one, the last attempt retries too.
AttemptsRemain_OffByOne(a, n) == a < n

\* `attempt < MAX_FIX_ATTEMPTS - 1` (agent.py:76, 121).
AttemptsRemain(a, n) == a < n - 1

\* Mutant of NextAttempt: a retry that is not counted.
NextAttempt_NotCounted(a) == a

\* The value the loop variable takes after `continue`.
NextAttempt(a) == a + 1

\* agent.py:77
JsonErrorContext ==
    << "LLM response was not valid JSON. Please respond with valid JSON format." >>

\* Mutant of VerifyErrorContext: the verifier's output is left out.
VerifyErrorContext_NoOutput(output) ==
    << "Code verification failed with error:\n", "", "\n\nPlease fix the errors." >>

\* agent.py:125: f"Code verification failed with error:\n{output}\n\nPlease fix the errors."
VerifyErrorContext(output) ==
    << "Code verification failed with error:\n", output, "\n\nPlease fix the errors." >>

\* agent.py:120: f"Verification error: {output}"
VerifyErrorMessage(output) == << "Verification error: ", output >>

\* Mutant of VerifySuccess: the exit code of the verifier is not looked at.
VerifySuccess_Always(rc) == TRUE

\* verification.py:48: success = returncode == 0
VerifySuccess(rc) == rc = 0

\* Mutant of NoChangesIntended: only a literal empty list counts.
NoChangesIntended_ListOnly(impl) == impl.has_files /\ impl.files = <<>>

\* agent.py:95
NoChangesIntended(impl) ==
    (impl.has_files /\ impl.files = <<>>) \/ Len(FilesOf(impl)) = 0

\* log_utils.py:80-91: the record log_attempt appends (the proposal's texts
\* are left out; files_count, error_context and has_raw_response are kept).
attempt_data(k, impl, ec) ==
    [ attempt |-> k, files_count |-> Len(FilesOf(impl)),
      error_context |-> ec, has_raw_response |-> impl.raw_response ]

\* Mutant of save_agent_log: nothing is written.
save_agent_log_Skipped(ls, entry) == ls

\* log_utils.py:94-110: one more JSON document in the logs directory.
save_agent_log(ls, entry) == Append(ls, entry)

Emit(e) == events' = Append(events, e)

----------------------------------------------------------------------------
(* The steps of run_single_task (agent.py:58-165)                          *)
(* The locals of an iteration (implementation, modified_files, success and *)
(* output) are assigned anew before the next iteration reads them; the     *)
(* `continue` steps reset them to their initial values.                    *)

\* agent.py:58 and 162-164: the loop header, and the fall-through after the
\* loop when the range is exhausted.
LoopHead ==
    /\ pc = "loop"
    /\ IF InRange(attempt, max_fix_attempts)
       THEN /\ pc' = "generate"
            /\ UNCHANGED log_entry
       ELSE /\ log_entry' = [log_entry EXCEPT !.final_status = "failed_unknown"]
            /\ pc' = "save_false"
    /\ UNCHANGED << params, attempt, error_context, implementation, modified_files,
                    verification, logs, result, tree, commits, events >>

\* agent.py:65: the generator is asked, with the current error_context.
Generate ==
    /\ pc = "generate"
    /\ \E p \in Proposals : implementation' = p
    /\ Emit(Ev("generate", attempt + 1, NoPath, 0, ""))
    /\ pc' = "log_attempt"
    /\ UNCHANGED << params, attempt, error_context, modified_files, verification,
                    log_entry, logs, result, tree, commits >>

\* Mutant of LogAttempt: the attempt is not recorded before its files are
\* written.
LogAttempt_NotRecorded ==
    /\ pc = "log_attempt"
    /\ pc' = IF implementation.kind = "nonobject" THEN "raised" ELSE "check_raw"
    /\ UNCHANGED << params, attempt, error_context, implementation, modified_files,
                    verification, log_entry, logs, result, tree, commits, events >>

\* agent.py:68: log_attempt; implementation.get raises AttributeError when
\* the parsed JSON is not an object.
LogAttempt ==
    /\ pc = "log_attempt"
    /\ IF implementation.kind = "nonobject"
       THEN /\ pc' = "raised"
            /\ UNCHANGED log_entry
       ELSE /\ log_entry' = [log_entry EXCEPT !.attempts =
                   Append(@, attempt_data(attempt + 1, implementation, error_context))]
            /\ pc' = "check_raw"
    /\ UNCHANGED << params, attempt, error_context, implementation, modified_files,
                    verification, logs, result, tree, commits, events >>

\* Mutant of CheckRaw: the retry after a parse failure keeps the error
\* context it was given.
CheckRaw_KeepsContext ==
    /\ pc = "check_raw"
    /\ IF implementation.raw_response
       THEN IF AttemptsRemain(attempt, max_fix_attempts)
            THEN /\ attempt' = NextAttempt(attempt)
                 /\ implementation' = NoProposal
                 /\ pc' = "loop"
                 /\ UNCHANGED error_context
            ELSE /\ pc' = "json_status"
                 /\ UNCHANGED << error_context, attempt, implementation >>
       ELSE /\ pc' = "apply"
            /\ UNCHANGED << error_context, attempt, implementation >>
    /\ UNCHANGED << params, modified_files, verification,
                    log_entry, logs, result, tree, commits, events >>

\* agent.py:72-81: the parse-failure branch.
CheckRaw ==
    /\ pc = "check_raw"
    /\ IF implementation.raw_response
       THEN IF AttemptsRemain(attempt, max_fix_attempts)
            THEN /\ error_context' = JsonErrorContext
                 /\ attempt' = NextAttempt(attempt)
                 /\ implementation' = NoProposal
                 /\ pc' = "loop"
            ELSE /\ pc' = "json_status"
                 /\ UNCHANGED << error_context, attempt, implementation >>
       ELSE /\ pc' = "apply"
            /\ UNCHANGED << error_context, attempt, implementation >>
    /\ UNCHANGED << params, modified_files, verification,
                    log_entry, logs, result, tree, commits, events >>

\* agent.py:82
JsonStatus ==
    /\ pc = "json_status"
    /\ log_entry' = [log_entry EXCEPT !.final_status = "failed_json_parsing"]
    /\ pc' = "json_message"
    /\ UNCHANGED << params, attempt, error_context, implementation, modified_files,
                    verification, logs, result, tree, commits, events >>

\* Mutant of JsonMessage: the parse failure ends the task without a message.
JsonMessage_Silent ==
    /\ pc = "json_message"
    /\ pc' = "save_false"
    /\ UNCHANGED << params, attempt, error_context, implementation, modified_files,
                    verification, log_entry, logs, result, tree, commits, events >>

\* agent.py:83
JsonMessage ==
    /\ pc = "json_message"
    /\ log_entry' = [log_entry EXCEPT !.error_messages =
                        Append(@, << "Failed to parse LLM response as JSON" >>)]
    /\ pc' = "save_false"
    /\ UNCHANGED << params, attempt, error_context, implementation, modified_files,
                    verification, logs, result, tree, commits, events >>

\* agent.py:89: apply_implementation; a KeyError leaves run_single_task.
Apply ==
    /\ pc = "apply"
    /\ LET r == apply_implementation(tree, implementation, attempt + 1)
       IN  /\ tree' = r.tree
           /\ events' = events \o r.events
           /\ IF r.raised
              THEN /\ pc' = "raised"
                   /\ UNCHANGED modified_files
              ELSE /\ pc' = "check_modified"
                   /\ modified_files' = r.modified
    /\ UNCHANGED << params, attempt, error_context, implementation, verification,
                    log_entry, logs, result, commits >>

\* agent.py:91-112.  Past line 95 the proposal is read for its
\* commit_message only (line 138): the entries of its file list, which
\* nothing reads any more, are not carried further.
CheckModified ==
    /\ pc = "check_modified"
    /\ IF modified_files = <<>>
       THEN /\ pc' = IF NoChangesIntended(implementation)
                     THEN "no_changes_todo" ELSE "impl_error_status"
            /\ UNCHANGED << log_entry, implementation >>
       ELSE /\ log_entry' = [log_entry EXCEPT !.files_modified = modified_files]
            /\ implementation' = [implementation EXCEPT !.files = <<>>]
            /\ pc' = "verify"
    /\ UNCHANGED << params, attempt, error_context, modified_files,
                    verification, logs, result, tree, commits, events >>

\* agent.py:98-99; update_todo_mark_complete always rewrites TODO.md
\* (file_ops.py:68).
NoChangesTodo ==
    /\ pc = "no_changes_todo"
    /\ IF update_todo
       THEN /\ tree' = write_file(tree, TodoPath)
            /\ Emit(Ev("mark", attempt + 1, TodoPath, 0, ""))
       ELSE UNCHANGED << tree, events >>
    /\ pc' = "no_changes_status"
    /\ UNCHANGED << params, attempt, error_context, implementation, modified_files,
                    verification, log_entry, logs, result, commits >>

\* agent.py:101
NoChangesStatus ==
    /\ pc = "no_changes_status"
    /\ log_entry' = [log_entry EXCEPT !.final_status = "completed_no_changes"]
    /\ pc' = "save_true"
    /\ UNCHANGED << params, attempt, error_context, implementation, modified_files,
                    verification, logs, result, tree, commits, events >>

\* Mutant of ImplErrorStatus: an apply error is retried while attempts remain.
ImplErrorStatus_Retry ==
    /\ pc = "impl_error_status"
    /\ IF AttemptsRemain(attempt, max_fix_attempts)
       THEN /\ error_context' = << "No files were modified." >>
            /\ attempt' = NextAttempt(attempt)
            /\ pc' = "loop"
            /\ UNCHANGED log_entry
       ELSE /\ log_entry' = [log_entry EXCEPT !.final_status = "failed_implementation_error"]
            /\ pc' = "impl_error_message"
            /\ UNCHANGED << error_context, attempt >>
    /\ UNCHANGED << params, implementation, modified_files,
                    verification, logs, result, tree, commits, events >>

\* agent.py:107
ImplErrorStatus ==
    /\ pc = "impl_error_status"
    /\ log_entry' = [log_entry EXCEPT !.final_status = "failed_implementation_error"]
    /\ pc' = "impl_error_message"
    /\ UNCHANGED << params, attempt, error_context, implementation, modified_files,
                    verification, logs, result, tree, commits, events >>

\* agent.py:108
ImplErrorMessage ==
    /\ pc = "impl_error_message"
    /\ log_entry' = [log_entry EXCEPT !.error_messages = Append(@,
           << "No files were modified but implementation indicated changes were needed" >>)]
    /\ pc' = "save_false"
    /\ UNCHANGED << params, attempt, error_context, implementation, modified_files,
                    verification, logs, result, tree, commits, events >>

\* agent.py:116: verify_acorn_code runs ./acorn over the whole library
\* (verification.py:41-48, no file argument).
Verify ==
    /\ pc = "verify"
    /\ \E rc \in ExitCodes :
          LET out == OutputOf(attempt + 1)
          IN  /\ verification' = [success |-> VerifySuccess(rc), output |-> out]
              /\ Emit(Ev("verify", attempt + 1, NoPath, rc, out))
    /\ pc' = "check_verify"
    /\ UNCHANGED << params, attempt, error_context, implementation, modified_files,
                    log_entry, logs, result, tree, commits >>

\* agent.py:118-121
CheckVerify ==
    /\ pc = "check_verify"
    /\ IF ~verification.success
       THEN /\ log_entry' = [log_entry EXCEPT !.error_messages =
                                Append(@, VerifyErrorMessage(verification.output))]
            /\ pc' = IF AttemptsRemain(attempt, max_fix_attempts)
                     THEN "rollback_retry" ELSE "rollback_final"
       ELSE /\ pc' = "commit"
            /\ UNCHANGED log_entry
    /\ UNCHANGED << params, attempt, error_context, implementation, modified_files,
                    verification, logs, result, tree, commits, events >>

\* Mutant of RollbackRetry: the rollback also empties the files_modified
\* field of the TaskLog.
RollbackRetry_ClearsFiles ==
    /\ pc = "rollback_retry"
    /\ \E rc \in ExitCodes :
          /\ tree' = git_checkout_all(tree, rc)
          /\ Emit(Ev("checkout", attempt + 1, NoPath, rc, ""))
    /\ log_entry' = [log_entry EXCEPT !.files_modified = <<>>]
    /\ error_context' = VerifyErrorContext(verification.output)
    /\ attempt' = NextAttempt(attempt)
    /\ implementation' = NoProposal
    /\ modified_files' = <<>>
    /\ verification' = NoVerification
    /\ pc' = "loop"
    /\ UNCHANGED << params, logs, result, commits >>

\* agent.py:124-126: run_command(["git", "checkout", "."], check=False); the
\* returned exit code is dropped.
RollbackRetry ==
    /\ pc = "rollback_retry"
    /\ \E rc \in ExitCodes :
          /\ tree' = git_checkout_all(tree, rc)
          /\ Emit(Ev("checkout", attempt + 1, NoPath, rc, ""))
    /\ error_context' = VerifyErrorContext(verification.output)
    /\ attempt' = NextAttempt(attempt)
    /\ implementation' = NoProposal
    /\ modified_files' = <<>>
    /\ verification' = NoVerification
    /\ pc' = "loop"
    /\ UNCHANGED << params, log_entry, logs, result, commits >>

\* Mutant of RollbackFinal: a rollback that exits non-zero is recorded in
\* error_messages.
RollbackFinal_FailureRecorded ==
    /\ pc = "rollback_final"
    /\ \E rc \in ExitCodes :
          /\ tree' = git_checkout_all(tree, rc)
          /\ Emit(Ev("checkout", attempt + 1, NoPath, rc, ""))
          /\ log_entry' = IF rc = 0 THEN log_entry
                          ELSE [log_entry EXCEPT !.error_messages =
                                    Append(@, << "Rollback failed" >>)]
    /\ pc' = "verification_status"
    /\ UNCHANGED << params, attempt, error_context, implementation, modified_files,
                    verification, logs, result, commits >>

\* agent.py:130
RollbackFinal ==
    /\ pc = "rollback_final"
    /\ \E rc \in ExitCodes :
          /\ tree' = git_checkout_all(tree, rc)
          /\ Emit(Ev("checkout", attempt + 1, NoPath, rc, ""))
    /\ pc' = "verification_status"
    /\ UNCHANGED << params, attempt, error_context, implementation, modified_files,
                    verification, log_entry, logs, result, commits >>

\* Mutant of VerificationStatus: the task is marked in TODO.md although its
\* verification failed.
VerificationStatus_Marked ==
    /\ pc = "verification_status"
    /\ log_entry' = [log_entry EXCEPT !.final_status = "failed_verification"]
    /\ IF update_todo
       THEN /\ tree' = write_file(tree, TodoPath)
            /\ Emit(Ev("mark", attempt + 1, TodoPath, 0, ""))
       ELSE UNCHANGED << tree, events >>
    /\ pc' = "save_false"
    /\ UNCHANGED << params, attempt, error_context, implementation, modified_files,
                    verification, logs, result, commits >>

\* agent.py:133
VerificationStatus ==
    /\ pc = "verification_status"
    /\ log_entry' = [log_entry EXCEPT !.final_status = "failed_verification"]
    /\ pc' = "save_false"
    /\ UNCHANGED << params, attempt, error_context, implementation, modified_files,
                    verification, logs, result, tree, commits, events >>

\* agent.py:138-140: git_add_commit_push over modified_files.  auto_push and
\* confirm_before_push are the arguments run_single_task was called with;
\* they are read here and nowhere else, so they are drawn at this step.
Commit ==
    /\ pc = "commit"
    /\ \E auto_push \in BOOLEAN, confirm_before_push \in BOOLEAN,
          addFail \in 0..Len(modified_files), commitRc \in ExitCodes,
          pushRc \in ExitCodes, answer \in {"y", "n"} :
          LET r == git_add_commit_push(tree, modified_files,
                       implementation.commit_message, auto_push,
                       confirm_before_push, attempt + 1,
                       addFail, commitRc, pushRc, answer)
          IN  /\ tree' = r.tree
              /\ commits' = commits + r.commits
              /\ events' = events \o r.events
              /\ pc' = IF r.ok THEN "success_todo" ELSE "commit_fail_status"
    /\ UNCHANGED << params, attempt, error_context, implementation, modified_files,
                    verification, log_entry, logs, result >>

\* agent.py:142-143
SuccessTodo ==
    /\ pc = "success_todo"
    /\ IF update_todo
       THEN /\ tree' = write_file(tree, TodoPath)
            /\ Emit(Ev("mark", attempt + 1, TodoPath, 0, ""))
       ELSE UNCHANGED << tree, events >>
    /\ pc' = "success_time"
    /\ UNCHANGED << params, attempt, error_context, implementation, modified_files,
                    verification, log_entry, logs, result, commits >>

\* agent.py:148-149
SuccessTime ==
    /\ pc = "success_time"
    /\ log_entry' = [log_entry EXCEPT !.total_time_seconds = "elapsed"]
    /\ pc' = "success_status"
    /\ UNCHANGED << params, attempt, error_context, implementation, modified_files,
                    verification, logs, result, tree, commits, events >>

\* agent.py:150
SuccessStatus ==
    /\ pc = "success_status"
    /\ log_entry' = [log_entry EXCEPT !.final_status = "completed_successfully"]
    /\ pc' = "save_true"
    /\ UNCHANGED << params, attempt, error_context, implementation, modified_files,
                    verification, logs, result, tree, commits, events >>

\* Mutant of CommitFailStatus: the failed commit is rolled back.
CommitFailStatus_Rollback ==
    /\ pc = "commit_fail_status"
    /\ log_entry' = [log_entry EXCEPT !.final_status = "failed_commit"]
    /\ tree' = git_checkout_all(tree, 0)
    /\ Emit(Ev("checkout", attempt + 1, NoPath, 0, ""))
    /\ pc' = "commit_fail_message"
    /\ UNCHANGED << params, attempt, error_context, implementation, modified_files,
                    verification, logs, result, commits >>

\* agent.py:157
CommitFailStatus ==
    /\ pc = "commit_fail_status"
    /\ log_entry' = [log_entry EXCEPT !.final_status = "failed_commit"]
    /\ pc' = "commit_fail_message"
    /\ UNCHANGED << params, attempt, error_context, implementation, modified_files,
                    verification, logs, result, tree, commits, events >>

\* Mutant of CommitFailMessage: the elapsed time is recorded on this path
\* too, after the status.
CommitFailMessage_Timed ==
    /\ pc = "commit_fail_message"
    /\ log_entry' = [log_entry EXCEPT
                        !.error_messages = Append(@, << "Git commit/push failed" >>),
                        !.total_time_seconds = "elapsed"]
    /\ pc' = "save_false"
    /\ UNCHANGED << params, attempt, error_context, implementation, modified_files,
                    verification, logs, result, tree, commits, events >>

\* agent.py:158
CommitFailMessage ==
    /\ pc = "commit_fail_message"
    /\ log_entry' = [log_entry EXCEPT !.error_messages =
                        Append(@, << "Git commit/push failed" >>)]
    /\ pc' = "save_false"
    /\ UNCHANGED << params, attempt, error_context, implementation, modified_files,
                    verification, logs, result, tree, commits, events >>

\* save_agent_log(log_entry) followed by `return True` or `return False`
\* (agent.py:84-85, 102-103, 109-110, 134-135, 151-153, 159-160, 164-165).
SaveAndReturn ==
    /\ pc \in {"save_true", "save_false"}
    /\ logs' = save_agent_log(logs, log_entry)
    /\ Emit(Ev("save", attempt + 1, NoPath, 0, log_entry.final_status))
    /\ result' = IF pc = "save_true" THEN "True" ELSE "False"
    /\ pc' = "returned"
    /\ UNCHANGED << params, attempt, error_context, implementation, modified_files,
                    verification, log_entry, tree, commits >>

Next ==
    \/ LoopHead
    \/ Generate
    \/ LogAttempt
    \/ CheckRaw
    \/ JsonStatus
    \/ JsonMessage
    \/ Apply
    \/ CheckModified
    \/ NoChangesTodo
    \/ NoChangesStatus
    \/ ImplErrorStatus
    \/ ImplErrorMessage
    \/ Verify
    \/ CheckVerify
    \/ RollbackRetry
    \/ RollbackFinal
    \/ VerificationStatus
    \/ Commit
    \/ SuccessTodo
    \/ SuccessTime
    \/ SuccessStatus
    \/ CommitFailStatus
    \/ CommitFailMessage
    \/ SaveAndReturn

Spec == Init /\ [][Next]_vars

----------------------------------------------------------------------------
(* The backlog round trip: extract_next_task and update_todo_mark_complete *)
(* applied in turn to a document (file_ops.py:23-69).                      *)

\* run_single_task is not running.
pipeline == << pc, max_fix_attempts, update_todo, attempt, error_context, implementation,
               modified_files, verification, log_entry, logs, result, tree, commits,
               events >>

NoTaskRunning ==
    /\ pc = "idle"
    /\ max_fix_attempts = MAX_FIX_ATTEMPTS
    /\ update_todo = FALSE
    /\ attempt = 0
    /\ error_context = <<>>
    /\ implementation = NoProposal
    /\ modified_files = <<>>
    /\ verification = NoVerification
    /\ log_entry = create_log_entry
    /\ logs = <<>>
    /\ result = "pending"
    /\ commits = 0
    /\ events = <<>>

PipelineIdle ==
    /\ NoTaskRunning
    /\ tree = InitTree

TodoInit ==
    /\ PipelineIdle
    /\ agent_pc = "read"
    /\ mode = "none"
    /\ max_iterations = 0
    /\ iteration = 0
    /\ todo \in Documents
    /\ task = NoTask
    /\ marked = NotMarked
    /\ calls = <<>>
    /\ todo_head = todo
    /\ Elsewhere

\* task = extract_next_task(todo_path)
TodoExtract ==
    /\ agent_pc \in {"read", "marked"}
    /\ task' = extract_next_task(todo)
    /\ agent_pc' = IF agent_pc = "read" THEN "extracted" ELSE "extracted_again"
    /\ UNCHANGED << pipeline, others, mode, max_iterations, iteration, todo, marked, calls >>

\* update_todo_mark_complete(todo_path, d), for the description of the task
\* just extracted and for any other description.
TodoMark ==
    /\ agent_pc = "extracted"
    /\ \E d \in Descriptions \cup (IF task.found THEN {task.description} ELSE {}) :
          /\ todo' = update_todo_mark_complete(todo, d)
          /\ marked' = [content |-> todo, task |-> task, description |-> d, made |-> TRUE]
    /\ agent_pc' = "marked"
    /\ UNCHANGED << pipeline, others, mode, max_iterations, iteration, task, calls >>

TodoNext ==
    \/ TodoExtract
    \/ TodoMark

TodoSpec == TodoInit /\ [][TodoNext]_vars

----------------------------------------------------------------------------
(* run_agent (agent.py:168-247)                                            *)
(*                                                                         *)
(* One behaviour is one call of run_agent.  A call of run_single_task is   *)
(* followed in three steps per attempt, TaskGenerate, TaskVerify and       *)
(* TaskCommit, made of the same operators as the steps of Spec.  Of the    *)
(* state of run_single_task, this specification keeps the attempt number,  *)
(* the files written, the working tree, the commits and the return value;  *)
(* the TaskLog is followed by Spec, here save_agent_log is a call in the   *)
(* trace.                                                                  *)

\* run_agent runs at most MaxIterations tasks: the largest max_iterations,
\* and the number of tasks the operator enters in interactive mode.
MaxIterations == 2

Modes == {"manual", "interactive", "backlog"}

\* The backlogs run_agent is started on: nothing to do, one item, two items,
\* two items the first of which begins the second, a NEXT STEP marker with
\* and without a checkbox.
AgentDocuments ==
    { << >>,
      << Checked, Space, "a", Newline >>,
      << Unchecked, Space, "a", Newline >>,
      << Unchecked, Space, "b", Newline, Unchecked, Space, "a", Newline >>,
      << Unchecked, Space, "a", Newline, Unchecked, Space, "a", "b", Newline >>,
      << Unchecked, Space, NextStep, Space, "a", Newline, Unchecked, Space, "b", Newline >>,
      << NextStep, Space, "a", Newline >> }

\* The task run_single_task builds from its task_description (agent.py:45).
ManualTask == [found |-> TRUE, description |-> << "a" >>, type |-> "manual"]

\* The backlog of the manual and interactive runs: it holds the task the
\* operator enters as an unchecked item.
ManualBacklog == << Unchecked, Space, "a", Newline >>

\* max_iterations and TODO.md are read in backlog mode only.
AgentInit ==
    /\ PipelineIdle
    /\ agent_pc = "start"
    /\ \/ /\ mode = "backlog"
          /\ max_iterations \in 0..MaxIterations
          /\ todo \in AgentDocuments
       \/ /\ mode \in Modes \ {"backlog"}
          /\ max_iterations = MaxIterations
          /\ todo = ManualBacklog
    /\ iteration = 0
    /\ task = NoTask
    /\ marked = NotMarked
    /\ calls = <<>>
    /\ todo_head = todo
    /\ Elsewhere

\* The state of run_single_task that the Task steps do not follow.
unfollowed == << pc, max_fix_attempts, error_context, implementation, verification,
                 log_entry, logs, events >>

\* run_single_task(..., description, ..., update_todo=flag) is entered
\* (agent.py:42-57).
Enter(description, flag) ==
    /\ task' = description
    /\ update_todo' = flag
    /\ attempt' = 0
    /\ modified_files' = <<>>
    /\ result' = "pending"
    /\ calls' = << "run_single_task" >>
    /\ iteration' = iteration + 1
    /\ agent_pc' = "attempt"

\* Mutant of AgentStart: manual mode passes update_todo=True.
AgentStart_UpdateTodo ==
    /\ agent_pc = "start"
    /\ CASE mode = "manual" ->
               Enter(ManualTask, TRUE)
         [] mode = "interactive" ->
               /\ agent_pc' = "input"
               /\ UNCHANGED << task, update_todo, attempt, modified_files, result, calls,
                               iteration >>
         [] OTHER ->
               /\ agent_pc' = "loop"
               /\ UNCHANGED << task, update_todo, attempt, modified_files, result, calls,
                               iteration >>
    /\ UNCHANGED << unfollowed, others, mode, max_iterations, todo, marked, tree, commits >>

\* agent.py:189-221: the mode is chosen; manual mode calls run_single_task.
AgentStart ==
    /\ agent_pc = "start"
    /\ CASE mode = "manual" ->
               Enter(ManualTask, FALSE)
         [] mode = "interactive" ->
               /\ agent_pc' = "input"
               /\ UNCHANGED << task, update_todo, attempt, modified_files, result, calls,
                               iteration >>
         [] OTHER ->
               /\ agent_pc' = "loop"
               /\ UNCHANGED << task, update_todo, attempt, modified_files, result, calls,
                               iteration >>
    /\ UNCHANGED << unfollowed, others, mode, max_iterations, todo, marked, tree, commits >>

\* agent.py:200-210: the operator types quit, nothing, or a task.
AgentInput ==
    /\ agent_pc = "input"
    /\ \E task_input \in {"quit", "", "a"} :
          CASE task_input = "quit" ->
                  /\ agent_pc' = "return"
                  /\ UNCHANGED << task, update_todo, attempt, modified_files, result,
                                  calls, iteration >>
            [] task_input = "" ->
                  UNCHANGED << agent_pc, task, update_todo, attempt, modified_files,
                               result, calls, iteration >>
            [] OTHER ->
                  /\ iteration < MaxIterations
                  /\ Enter(ManualTask, FALSE)
    /\ UNCHANGED << unfollowed, others, mode, max_iterations, todo, marked, tree, commits >>

\* agent.py:211-214: KeyboardInterrupt at the prompt or inside the task ends
\* interactive mode.
AgentInterrupt ==
    /\ mode = "interactive"
    /\ agent_pc \in {"input", "attempt"}
    /\ agent_pc' = "return"
    /\ UNCHANGED << pipeline, others, mode, max_iterations, iteration, todo, task, marked, calls >>

\* agent.py:223 and 243-247: the loop header of backlog mode.
AgentLoop ==
    /\ agent_pc = "loop"
    /\ agent_pc' = IF iteration < max_iterations THEN "extract" ELSE "finished"
    /\ UNCHANGED << pipeline, others, mode, max_iterations, iteration, todo, task, marked, calls >>

\* agent.py:230-237: the next task is read from TODO.md and run.
AgentExtract ==
    /\ agent_pc = "extract"
    /\ LET found == extract_next_task(todo)
       IN  IF ~found.found
           THEN /\ agent_pc' = "finished"
                /\ task' = found
                /\ calls' = << "extract_next_task" >>
                /\ UNCHANGED << update_todo, attempt, modified_files, result >>
           ELSE /\ task' = found
                /\ update_todo' = TRUE
                /\ attempt' = 0
                /\ modified_files' = <<>>
                /\ result' = "pending"
                /\ calls' = << "extract_next_task", "run_single_task" >>
                /\ agent_pc' = "attempt"
    /\ UNCHANGED << unfollowed, others, mode, max_iterations, iteration, todo, marked, tree,
                    commits >>

\* The names of the calls in a list of events.
NamesOf(evs) == [i \in DOMAIN evs |-> evs[i].ev]

\* `git checkout .` on TODO.md (agent.py:124, 130): the file is in the
\* working tree the command restores, so that on exit 0 a TODO.md that was
\* written since the last commit holds the last commit's content again.
todo_after_checkout(content, t, rc) ==
    IF rc = 0 /\ t[TodoPath] = "modified" THEN todo_head ELSE content

\* `continue`: the next iteration of the attempt loop, in the tree t with
\* TODO.md holding content, after the calls made in this one.
Continue(t, content, made) ==
    /\ attempt' = NextAttempt(attempt)
    /\ modified_files' = <<>>
    /\ tree' = t
    /\ todo' = content
    /\ calls' = calls \o made
    /\ agent_pc' = "attempt"
    /\ UNCHANGED << result, marked >>

\* An exception leaves run_single_task, and run_agent with it: none of the
\* calls of run_single_task in run_agent is inside a try that catches it.
Raise(t, made) ==
    /\ tree' = t
    /\ calls' = calls \o made
    /\ agent_pc' = "raised"
    /\ UNCHANGED << attempt, modified_files, result, todo, marked >>

\* The task ends with final_status status: the mark in TODO.md on the two
\* success paths when update_todo is set (agent.py:98-99, 142-143), then
\* save_agent_log and the return.
Return(status, t, content, made) ==
    LET success == status \in {"completed_successfully", "completed_no_changes"}
    IN  /\ IF success /\ update_todo
           THEN /\ todo' = update_todo_mark_complete(content, task.description)
                /\ marked' = [content |-> content, task |-> task,
                              description |-> task.description, made |-> TRUE]
                /\ tree' = write_file(t, TodoPath)
                /\ calls' = calls \o made \o << "mark", "save" >>
           ELSE /\ tree' = t
                /\ todo' = content
                /\ calls' = calls \o made \o << "save" >>
                /\ UNCHANGED marked
        /\ result' = IF success THEN "True" ELSE "False"
        /\ agent_pc' = "after"
        /\ UNCHANGED << attempt, modified_files >>

\* agent.py:58-112: the generator is asked and its proposal is applied.
TaskGenerate ==
    /\ agent_pc = "attempt"
    /\ InRange(attempt, max_fix_attempts)
    /\ \E impl \in Proposals :
          LET applied == apply_implementation(tree, impl, attempt + 1)
              made    == << "generate" >> \o NamesOf(applied.events)
          IN  CASE impl.kind = "nonobject" -> Raise(tree, << "generate" >>)
                [] impl.kind # "nonobject" /\ impl.raw_response ->
                      IF AttemptsRemain(attempt, max_fix_attempts)
                      THEN Continue(tree, todo, << "generate" >>)
                      ELSE Return("failed_json_parsing", tree, todo, << "generate" >>)
                [] OTHER ->
                      IF applied.raised THEN Raise(applied.tree, made)
                      ELSE IF applied.modified = <<>>
                      THEN Return(IF NoChangesIntended(impl) THEN "completed_no_changes"
                                  ELSE "failed_implementation_error", applied.tree,
                                  todo, made)
                      ELSE /\ tree' = applied.tree
                           /\ modified_files' = applied.modified
                           /\ calls' = calls \o made
                           /\ agent_pc' = "verify"
                           /\ UNCHANGED << attempt, result, todo, marked >>
    /\ UNCHANGED << unfollowed, others, update_todo, mode, max_iterations, iteration, task,
                    commits >>

\* agent.py:114-135: the verifier runs; on a failure the changes are rolled
\* back and the attempt is retried or the task ends.
TaskVerify ==
    /\ agent_pc = "verify"
    /\ \E verifyRc \in ExitCodes, checkoutRc \in ExitCodes :
          IF VerifySuccess(verifyRc)
          THEN /\ calls' = Append(calls, "verify")
               /\ agent_pc' = "commit"
               /\ UNCHANGED << attempt, modified_files, result, todo, marked, tree >>
          ELSE IF AttemptsRemain(attempt, max_fix_attempts)
          THEN Continue(git_checkout_all(tree, checkoutRc),
                        todo_after_checkout(todo, tree, checkoutRc),
                        << "verify", "checkout" >>)
          ELSE Return("failed_verification", git_checkout_all(tree, checkoutRc),
                      todo_after_checkout(todo, tree, checkoutRc),
                      << "verify", "checkout" >>)
    /\ UNCHANGED << unfollowed, others, update_todo, mode, max_iterations, iteration, task,
                    commits >>

\* agent.py:137-160: git_add_commit_push, and the end of the task.
TaskCommit ==
    /\ agent_pc = "commit"
    /\ \E auto_push \in BOOLEAN, confirm_before_push \in BOOLEAN,
          addFail \in 0..Len(modified_files), commitRc \in ExitCodes,
          pushRc \in ExitCodes, answer \in {"y", "n"} :
          LET r == git_add_commit_push(tree, modified_files, "msg", auto_push,
                       confirm_before_push, attempt + 1,
                       addFail, commitRc, pushRc, answer)
          IN  /\ commits' = commits + r.commits
              /\ Return(IF r.ok THEN "completed_successfully" ELSE "failed_commit",
                        r.tree, todo, NamesOf(r.events))
    /\ UNCHANGED << unfollowed, others, update_todo, mode, max_iterations, iteration, task >>

\* Mutant of AgentAfterTask: backlog mode goes on to the next item after a
\* failed task.
AgentAfterTask_SkipAndContinue ==
    /\ agent_pc = "after"
    /\ CASE mode = "manual" ->
               /\ agent_pc' = "return"
               /\ UNCHANGED iteration
         [] mode = "interactive" ->
               /\ agent_pc' = "input"
               /\ UNCHANGED iteration
         [] OTHER ->
               /\ agent_pc' = "loop"
               /\ iteration' = iteration + 1
    /\ UNCHANGED << pipeline, others, mode, max_iterations, todo, task, marked, calls >>

\* run_single_task has returned: manual mode returns (agent.py:194),
\* interactive mode prompts again (agent.py:200), backlog mode stops at a
\* failure and otherwise goes on to the next iteration (agent.py:238-241).
AgentAfterTask ==
    /\ agent_pc = "after"
    /\ CASE mode = "manual" ->
               /\ agent_pc' = "return"
               /\ UNCHANGED iteration
         [] mode = "interactive" ->
               /\ agent_pc' = "input"
               /\ UNCHANGED iteration
         [] OTHER ->
               IF result # "True"
               THEN /\ agent_pc' = "finished"
                    /\ UNCHANGED iteration
               ELSE /\ agent_pc' = "loop"
                    /\ iteration' = iteration + 1
    /\ UNCHANGED << pipeline, others, mode, max_iterations, todo, task, marked, calls >>

AgentNext ==
    \/ AgentStart
    \/ AgentInput
    \/ AgentInterrupt
    \/ AgentLoop
    \/ AgentExtract
    \/ TaskGenerate
    \/ TaskVerify
    \/ TaskCommit
    \/ AgentAfterTask

AgentSpec == AgentInit /\ [][AgentNext]_vars

----------------------------------------------------------------------------
(* generate_implementation past the backend call (llm_interface.py:100-120) *)

\* response = ask(prompt, model=model): the backend has answered.
GenInit ==
    /\ PipelineIdle
    /\ NoCaller
    /\ todo_head = <<>>
    /\ rollbacks = <<>>
    /\ AnalyzerIdle
    /\ ContextIdle
    /\ gen_pc = "asked"
    /\ backend \in BackendAnswers
    /\ response = backend.text
    /\ proposal = NotReturned

\* llm_interface.py:104-106
GenSearch ==
    /\ gen_pc = "asked"
    /\ LET found == json_match(response)
       IN  response' = IF found.found THEN found.group ELSE response
    /\ gen_pc' = "loads"
    /\ UNCHANGED << pipeline, caller, todo_head, rollbacks, analyzer, context, backend, proposal >>

\* llm_interface.py:109-120
GenLoads ==
    /\ gen_pc = "loads"
    /\ proposal' = Loaded(response)
    /\ gen_pc' = "returned"
    /\ UNCHANGED << pipeline, caller, todo_head, rollbacks, analyzer, context, backend, response >>

GenNext ==
    \/ GenSearch
    \/ GenLoads

GenSpec == GenInit /\ [][GenNext]_vars

----------------------------------------------------------------------------
(* The rollback on its own: run_command(["git", "checkout", "."],          *)
(* cwd=acornlib_path, check=False) (agent.py:124, 130; git_ops.py:10-22)   *)

\* git_ops.py:10-22: subprocess.run with check=False; the exit code is
\* returned, nothing is raised for a non-zero one.
run_command(rc) == [returncode |-> rc, raised |-> FALSE]

RollbackInit ==
    /\ NoTaskRunning
    /\ NoCaller
    /\ todo_head = <<>>
    /\ GeneratorIdle
    /\ AnalyzerIdle
    /\ ContextIdle
    /\ tree \in Trees
    /\ rollbacks = <<>>

\* One more rollback of the tree as it is.
Rollback ==
    /\ Len(rollbacks) < MaxRollbacks
    /\ \E rc \in ExitCodes :
          LET ran == run_command(rc)
          IN  /\ tree' = git_checkout_all(tree, ran.returncode)
              /\ rollbacks' = Append(rollbacks,
                     [before |-> tree, rc |-> ran.returncode, raised |-> ran.raised])
    /\ UNCHANGED << pc, max_fix_attempts, update_todo, attempt, error_context,
                    implementation, modified_files, verification, log_entry, logs, result,
                    commits, events, caller, todo_head, generator, analyzer, context >>

RollbackNext == Rollback

RollbackSpec == RollbackInit /\ [][RollbackNext]_vars

----------------------------------------------------------------------------
(* analyze_logs (log_utils.py:113-220)                                     *)

\* log_utils.py:122: the files named task_*.json, in the order of the listing.
json_files == SelectSeq(log_dir.files, LAMBDA f : f.named)

AnalyzeInit ==
    /\ PipelineIdle
    /\ NoCaller
    /\ todo_head = <<>>
    /\ GeneratorIdle
    /\ rollbacks = <<>>
    /\ ContextIdle
    /\ analyzer_pc = "start"
    /\ log_dir \in LogDirectories
    /\ file_index = 0
    /\ stats = NoStats
    /\ all_tasks = <<>>

\* log_utils.py:115-127: no directory, or no task log in it, and the function
\* returns.
AnalyzeStart ==
    /\ analyzer_pc = "start"
    /\ analyzer_pc' = IF ~log_dir.exists \/ json_files = <<>> THEN "returned" ELSE "read"
    /\ UNCHANGED << pipeline, caller, todo_head, generator, rollbacks, context, log_dir, file_index,
                    stats, all_tasks >>

\* log_utils.py:153-180: the tallies of one loaded document that has .get.
Tally(st, task_data) ==
    LET status == IF task_data.kind = "tasklog" THEN task_data.final_status ELSE "unknown"
        key    == CASE status = "completed_successfully" -> "successful"
                    [] status \in {"failed_verification", "failed_json_parsing",
                                   "failed_commit", "completed_no_changes"} -> status
                    [] OTHER -> "other_failures"
    IN  [st EXCEPT ![key] = @ + 1,
                   !.total_files_modified = @ + task_data.files_modified,
                   !.avg_attempts = [@ EXCEPT !.num = @ + task_data.attempts],
                   !.common_errors = @ \o task_data.error_messages]

\* log_utils.py:146-183: one file of json_files.  open and json.load raise
\* inside the try; a loaded document is appended and counted (lines 151 and
\* 153) before its .get is called, which a list does not have.
AnalyzeFile ==
    /\ analyzer_pc = "read"
    /\ file_index < Len(json_files)
    /\ LET json_file == json_files[file_index + 1]
           counted   == [stats EXCEPT !.total_tasks = @ + 1]
       IN  CASE json_file.kind \in {"unreadable", "not_json"} ->
                   /\ stats' = [stats EXCEPT !.warnings = @ + 1]
                   /\ UNCHANGED all_tasks
             [] json_file.kind = "list" ->
                   /\ all_tasks' = Append(all_tasks, json_file)
                   /\ stats' = [counted EXCEPT !.warnings = @ + 1]
             [] OTHER ->
                   /\ all_tasks' = Append(all_tasks, json_file)
                   /\ stats' = Tally(counted, json_file)
    /\ file_index' = file_index + 1
    /\ UNCHANGED << pipeline, caller, todo_head, generator, rollbacks, context, analyzer_pc, log_dir >>

\* log_utils.py:185-220: the report.  Line 191 divides by total_tasks
\* (ZeroDivisionError) and line 211 calls .get on every loaded document
\* (AttributeError for a list); neither is inside a try.
AnalyzeReport ==
    /\ analyzer_pc = "read"
    /\ file_index = Len(json_files)
    /\ stats' = IF stats.total_tasks > 0
                THEN [stats EXCEPT !.avg_attempts = [@ EXCEPT !.den = stats.total_tasks]]
                ELSE stats
    /\ analyzer_pc' =
          IF stats.total_tasks = 0 THEN "raised"
          ELSE IF \E i \in DOMAIN all_tasks : all_tasks[i].kind = "list" THEN "raised"
          ELSE "returned"
    /\ UNCHANGED << pipeline, caller, todo_head, generator, rollbacks, context, log_dir, file_index,
                    all_tasks >>

AnalyzeNext ==
    \/ AnalyzeStart
    \/ AnalyzeFile
    \/ AnalyzeReport

AnalyzeSpec == AnalyzeInit /\ [][AnalyzeNext]_vars

----------------------------------------------------------------------------
(* The standalone driver: run_agent of acorn_dev_agent.py (lines 325-442).  *)
(* Its extract_next_task, update_todo_mark_complete and apply_implementation *)
(* (lines 127-172, 298-322) are the same text as those of the package, its  *)
(* MAX_FIX_ATTEMPTS (line 24) has the same value, and its                   *)
(* git_add_commit_push (lines 80-112) is the package's without the          *)
(* confirmation.  It keeps no TaskLog; result is what it printed about the  *)
(* latest task: "True" after 'Task completed successfully', "False" after   *)
(* one of its 'Stopping' messages.                                          *)

DevInit ==
    /\ PipelineIdle
    /\ agent_pc = "loop"
    /\ mode = "standalone"
    /\ max_iterations \in 0..MaxIterations
    /\ todo \in AgentDocuments
    /\ iteration = 0
    /\ task = NoTask
    /\ marked = NotMarked
    /\ calls = <<>>
    /\ todo_head = todo
    /\ Elsewhere

\* acorn_dev_agent.py:341 and 440-442: the header of
\* `for iteration in range(max_iterations)` and the end of run_agent.
DevLoop ==
    /\ agent_pc = "loop"
    /\ agent_pc' = IF iteration < max_iterations THEN "extract" ELSE "finished"
    /\ UNCHANGED << pipeline, others, mode, max_iterations, iteration, todo, task, marked, calls >>

\* acorn_dev_agent.py:347-360: the next task is read from TODO.md; without
\* one the outer loop is left, with one the attempt loop is entered.
DevExtract ==
    /\ agent_pc = "extract"
    /\ LET found == extract_next_task(todo)
       IN  /\ task' = found
           /\ calls' = << "extract_next_task" >>
           /\ IF ~found.found
              THEN /\ agent_pc' = "finished"
                   /\ UNCHANGED << attempt, modified_files >>
              ELSE /\ attempt' = 0
                   /\ modified_files' = <<>>
                   /\ agent_pc' = "attempt"
    /\ UNCHANGED << unfollowed, others, update_todo, result, mode, max_iterations, iteration,
                    todo, marked, tree, commits >>

\* `continue` (acorn_dev_agent.py:376, 396, 419): the next iteration of the
\* attempt loop.
DevContinue(t, content, made) ==
    /\ attempt' = NextAttempt(attempt)
    /\ modified_files' = <<>>
    /\ tree' = t
    /\ todo' = content
    /\ calls' = calls \o made
    /\ agent_pc' = "attempt"
    /\ UNCHANGED << result, marked, iteration >>

\* `break` (acorn_dev_agent.py:379, 400, 409, 425, 435, 438): it leaves the
\* attempt loop, the innermost one; nothing follows that loop in the body of
\* the outer loop, whose header is evaluated next.
DevBreak(outcome, t, content, made) ==
    /\ result' = outcome
    /\ tree' = t
    /\ todo' = content
    /\ calls' = calls \o made
    /\ iteration' = iteration + 1
    /\ agent_pc' = "loop"
    /\ UNCHANGED << attempt, modified_files >>

\* An exception leaves run_agent: it has no try.
DevRaise(t, made) ==
    /\ tree' = t
    /\ calls' = calls \o made
    /\ agent_pc' = "raised"
    /\ UNCHANGED << attempt, modified_files, result, todo, marked, iteration >>

\* The entries the isolated check reads (acorn_dev_agent.py:384-388):
\* file_spec['path'] of an entry with content raises KeyError without one.
DevTestRaises(files) ==
    \E i \in DOMAIN files : files[i].content # Absent /\ files[i].path = NoPath

\* acorn_dev_agent.py:367-409: the generator is asked, its proposal is
\* checked in the external file and applied.  implementation.get (line 369)
\* raises AttributeError when the parsed JSON is not an object.
DevGenerate ==
    /\ agent_pc = "attempt"
    /\ InRange(attempt, MAX_FIX_ATTEMPTS)
    /\ \E impl \in Proposals, testRc \in ExitCodes :
          LET applied == apply_implementation(tree, impl, attempt + 1)
              tested  == IF Len(FilesOf(impl)) > 0 THEN << "test" >> ELSE << >>
              made    == << "generate" >> \o tested \o NamesOf(applied.events)
          IN  CASE impl.kind = "nonobject" ->
                      /\ DevRaise(tree, << "generate" >>)
                      /\ UNCHANGED marked
                [] impl.kind # "nonobject" /\ impl.raw_response ->
                      /\ IF AttemptsRemain(attempt, MAX_FIX_ATTEMPTS)
                         THEN DevContinue(tree, todo, << "generate" >>)
                         ELSE DevBreak("False", tree, todo, << "generate" >>)
                      /\ UNCHANGED marked
                [] OTHER ->
                      /\ UNCHANGED marked
                      /\ IF DevTestRaises(FilesOf(impl))
                         THEN DevRaise(tree, << "generate" >>)
                         ELSE IF Len(FilesOf(impl)) > 0 /\ testRc # 0
                         THEN IF AttemptsRemain(attempt, MAX_FIX_ATTEMPTS)
                              THEN DevContinue(tree, todo, << "generate", "test" >>)
                              ELSE DevBreak("False", tree, todo, << "generate", "test" >>)
                         ELSE IF applied.raised
                         THEN DevRaise(applied.tree, made)
                         ELSE IF applied.modified = <<>>
                         THEN DevBreak("False", applied.tree, todo, made)
                         ELSE /\ tree' = applied.tree
                              /\ modified_files' = applied.modified
                              /\ calls' = calls \o made
                              /\ agent_pc' = "verify"
                              /\ UNCHANGED << attempt, result, todo, iteration >>
    /\ UNCHANGED << unfollowed, others, update_todo, mode, max_iterations, task, commits >>

\* acorn_dev_agent.py:412-425: the verifier runs; on a failure the changes
\* are rolled back and the attempt is retried or the attempt loop is left.
DevVerify ==
    /\ agent_pc = "verify"
    /\ \E verifyRc \in ExitCodes, checkoutRc \in ExitCodes :
          IF VerifySuccess(verifyRc)
          THEN /\ calls' = Append(calls, "verify")
               /\ agent_pc' = "commit"
               /\ UNCHANGED << attempt, modified_files, result, todo, tree, iteration >>
          ELSE IF AttemptsRemain(attempt, MAX_FIX_ATTEMPTS)
          THEN DevContinue(git_checkout_all(tree, checkoutRc),
                           todo_after_checkout(todo, tree, checkoutRc),
                           << "verify", "checkout" >>)
          ELSE DevBreak("False", git_checkout_all(tree, checkoutRc),
                        todo_after_checkout(todo, tree, checkoutRc),
                        << "verify", "checkout" >>)
    /\ UNCHANGED << unfollowed, others, update_todo, mode, max_iterations, task, marked,
                    commits >>

\* acorn_dev_agent.py:428-438: git_add_commit_push; on success TODO.md is
\* marked, which rewrites the file (line 172) after the commit.
DevCommit ==
    /\ agent_pc = "commit"
    /\ \E auto_push \in BOOLEAN, addFail \in 0..Len(modified_files),
          commitRc \in ExitCodes, pushRc \in ExitCodes :
          LET r == git_add_commit_push(tree, modified_files, "msg", auto_push, FALSE,
                       attempt + 1, addFail, commitRc, pushRc, "y")
          IN  /\ commits' = commits + r.commits
              /\ IF r.ok
                 THEN /\ DevBreak("True", write_file(r.tree, TodoPath),
                                  update_todo_mark_complete(todo, task.description),
                                  NamesOf(r.events) \o << "mark" >>)
                      /\ marked' = [content |-> todo, task |-> task,
                                    description |-> task.description, made |-> TRUE]
                 ELSE /\ DevBreak("False", r.tree, todo, NamesOf(r.events))
                      /\ UNCHANGED marked
    /\ UNCHANGED << unfollowed, others, update_todo, mode, max_iterations, task >>

DevNext ==
    \/ DevLoop
    \/ DevExtract
    \/ DevGenerate
    \/ DevVerify
    \/ DevCommit

DevSpec == DevInit /\ [][DevNext]_vars

----------------------------------------------------------------------------
(* The loading of the documentation context                                *)

ContextInit ==
    /\ PipelineIdle
    /\ NoCaller
    /\ todo_head = <<>>
    /\ GeneratorIdle
    /\ rollbacks = <<>>
    /\ AnalyzerIdle
    /\ ctx_pc = "start"
    /\ loader \in Loaders
    /\ context_file \in ContextFiles
    /\ docs = NoDocs

\* One of the three functions is called on the context file.
ContextLoad ==
    /\ ctx_pc = "start"
    /\ LET r == CASE loader = "agent.file_ops" -> load_acorn_context(context_file)
                  [] loader = "acorn_agent"    -> load_context(context_file)
                  [] OTHER                     -> dev_load_acorn_context(context_file)
       IN  /\ docs' = r.docs
           /\ ctx_pc' = IF r.raised THEN "raised" ELSE "loaded"
    /\ UNCHANGED << pipeline, caller, todo_head, generator, rollbacks, analyzer, loader,
                    context_file >>

ContextNext == ContextLoad

ContextSpec == ContextInit /\ [][ContextNext]_vars

----------------------------------------------------------------------------
(* Vocabulary of the claims                                                *)

N == max_fix_attempts
Recorded == log_entry.attempts
EventsNamed(names) == {i \in DOMAIN events : events[i].ev \in names}
EventsOfAttempt(k) == {i \in DOMAIN events : events[i].attempt = k}
GeneratorCalls == Cardinality(EventsNamed({"generate"}))
VcsCommands == {"add", "commit", "push", "checkout"}
Returned == pc = "returned"

----------------------------------------------------------------------------
(* C1 *)

\* C1: whatever the attempt bound N >= 1 and whatever the generator, the
\* verifier and git answer, the generator is invoked at most N times in a
\* run, and the TaskLog, while it is built and when it is persisted, holds at
\* most N attempts.
C1_AtMostNAttempts ==
    /\ GeneratorCalls <= N
    /\ Len(Recorded) <= N
    /\ \A i \in DOMAIN logs : Len(logs[i].attempts) <= N

\* A run with the program's bound that used all its attempts and persisted
\* a log holding all of them.
C1_Witness ==
    /\ Returned
    /\ N = MAX_FIX_ATTEMPTS
    /\ GeneratorCalls = N
    /\ Len(logs) = 1 /\ Len(logs[1].attempts) = N

----------------------------------------------------------------------------
(* C2 *)

\* Every write of an earlier attempt is followed by a `git checkout .` of
\* that attempt.
C2_RollbackIssued ==
    \A i \in EventsNamed({"write"}) :
        events[i].attempt < attempt + 1 =>
            \E j \in EventsNamed({"checkout"}) :
                j > i /\ events[j].attempt = events[i].attempt

\* C2: rollback before retry.  When the generator is about to be invoked for
\* an attempt k > 1, every file written by apply_implementation in the
\* attempts before has been discarded by a `git checkout .`: no write of an
\* earlier attempt is still uncommitted in the working tree.
C2_RollbackBeforeRetry ==
    (pc = "generate" /\ attempt > 0) =>
        /\ C2_RollbackIssued
        /\ Uncommitted(tree) \cap Paths = {}

----------------------------------------------------------------------------
(* C3 *)

\* C3: the verifier gates every commit.  Every git add, commit and push of
\* git_add_commit_push comes after a whole-repository verification that
\* passed in the same attempt, with no file write and no rollback in
\* between; a commit exists only if such a verification does.
C3_VerifierGatesCommit ==
    /\ \A i \in EventsNamed({"add", "commit", "push", "decline_push"}) :
          \E j \in EventsNamed({"verify"}) :
             /\ j < i
             /\ events[j].attempt = events[i].attempt
             /\ events[j].rc = 0
             /\ events[j].path = NoPath
             /\ \A m \in (j + 1)..(i - 1) : events[m].ev \notin {"write", "checkout", "verify"}
    /\ pc = "commit" =>
          /\ events[Len(events)].ev = "verify"
          /\ events[Len(events)].rc = 0
          /\ events[Len(events)].attempt = attempt + 1
    /\ commits > 0 =>
          \E j \in EventsNamed({"verify"}) : events[j].rc = 0

\* A commit was created in the second attempt, after the first attempt's
\* verification failed.
C3_Witness ==
    /\ commits = 1
    /\ \E i \in EventsNamed({"commit"}) : events[i].rc = 0 /\ events[i].attempt = 2
    /\ \E j \in EventsNamed({"verify"}) : events[j].rc # 0 /\ events[j].attempt = 1

----------------------------------------------------------------------------
(* C4 *)

----------------------------------------------------------------------------
(* C5 *)

\* C5 as stated: final_status is set exactly once, after the log is
\* otherwise complete; once it has been assigned no field of the TaskLog
\* changes any more.
C5_NothingAfterFinalStatus ==
    [][log_entry.final_status # None => log_entry' = log_entry]_vars

\* C5 as amended: final_status is assigned exactly once; after that,
\* attempts, files_modified and total_time_seconds are not modified, and
\* error_messages receives at most one more message, the failure message of
\* the failed_json_parsing, failed_implementation_error and failed_commit
\* paths, appended right before the log is persisted.
C5_OnlyFailureMessageAfterFinalStatus ==
    [][log_entry.final_status # None =>
         /\ log_entry'.final_status = log_entry.final_status
         /\ log_entry'.attempts = log_entry.attempts
         /\ log_entry'.files_modified = log_entry.files_modified
         /\ log_entry'.total_time_seconds = log_entry.total_time_seconds
         /\ \/ log_entry'.error_messages = log_entry.error_messages
            \/ /\ pc \in {"json_message", "impl_error_message", "commit_fail_message"}
               /\ log_entry.final_status \in
                     {"failed_json_parsing", "failed_implementation_error", "failed_commit"}
               /\ Len(log_entry'.error_messages) = Len(log_entry.error_messages) + 1
               /\ SubSeq(log_entry'.error_messages, 1, Len(log_entry.error_messages))
                     = log_entry.error_messages
               /\ pc' = "save_false"]_vars

\* The status was assigned, the failure message was appended after it, and
\* the log is about to be persisted.
C5_Witness ==
    /\ pc = "save_false"
    /\ log_entry.final_status = "failed_commit"
    /\ Len(log_entry.error_messages) > 0
    /\ log_entry.error_messages[Len(log_entry.error_messages)] = << "Git commit/push failed" >>
    /\ logs = <<>>

----------------------------------------------------------------------------
(* C6 *)

\* The run of the claim: bound 3, the verifier failed in attempt 1 and
\* passed in attempt 2, and no git add, commit or push failed.
C6_Scenario ==
    /\ Returned
    /\ N = 3
    /\ \E i \in EventsNamed({"verify"}) : events[i].attempt = 1 /\ events[i].rc # 0
    /\ \E i \in EventsNamed({"verify"}) : events[i].attempt = 2 /\ events[i].rc = 0
    /\ \A i \in EventsNamed({"add", "commit", "push"}) : events[i].rc = 0

\* C6: in that run the persisted TaskLog has final_status
\* completed_successfully and exactly 2 attempts, and attempt 2's
\* error_context contains the verifier's output of attempt 1.  In general,
\* after the verification of attempt k failed with attempts remaining, the
\* task goes on to attempt k+1 with an error_context made of attempt k's
\* verifier output followed by the fix instruction, and that is what attempt
\* k+1's record holds.
C6_VerifierFeedback ==
    /\ C6_Scenario =>
          /\ Len(logs) = 1
          /\ logs[1].final_status = "completed_successfully"
          /\ Len(logs[1].attempts) = 2
          /\ \E i \in EventsNamed({"verify"}) :
                /\ events[i].attempt = 1
                /\ \E j \in DOMAIN logs[1].attempts[2].error_context :
                      logs[1].attempts[2].error_context[j] = events[i].text
    /\ \A i \in EventsNamed({"verify"}) :
          LET k == events[i].attempt
              feedback == << "Code verification failed with error:\n",
                             events[i].text, "\n\nPlease fix the errors." >>
          IN  (events[i].rc # 0 /\ k < N) =>
                 /\ Len(Recorded) > k => Recorded[k + 1].error_context = feedback
                 /\ Len(Recorded) = k =>
                       /\ pc \in {"check_verify", "rollback_retry", "loop",
                                  "generate", "log_attempt", "raised"}
                       /\ pc \in {"loop", "generate", "log_attempt"} =>
                             error_context = feedback

C6_Witness == C6_Scenario

----------------------------------------------------------------------------
(* C7 *)

\* The run of the claim: bound 3 and three verifications, all failed.
C7_Scenario ==
    /\ Returned
    /\ N = 3
    /\ Cardinality({i \in EventsNamed({"verify"}) : events[i].rc # 0}) = 3

\* C7: with bound 3 and a verifier that fails every time, the persisted
\* TaskLog has final_status failed_verification and exactly 3 attempts, a
\* rollback follows each of the 3 failed verifications, the last included,
\* no commit is made, and the working tree is clean after the run.
C7_AlwaysFailingVerifier ==
    C7_Scenario =>
        /\ Len(logs) = 1
        /\ logs[1].final_status = "failed_verification"
        /\ Len(logs[1].attempts) = 3
        /\ \A i \in EventsNamed({"verify"}) :
              /\ i < Len(events)
              /\ events[i + 1].ev = "checkout"
              /\ events[i + 1].attempt = events[i].attempt
        /\ commits = 0
        /\ EventsNamed({"add", "commit", "push"}) = {}
        /\ Uncommitted(tree) = {}

----------------------------------------------------------------------------
(* C8 *)

\* The attempt in progress, or the last one made, was recorded with a parsed
\* proposal whose files list is empty or missing.
C8_EmptyProposal ==
    /\ Len(Recorded) = attempt + 1
    /\ Recorded[attempt + 1].files_count = 0
    /\ ~Recorded[attempt + 1].has_raw_response

\* C8: a parsed proposal with an empty or missing files list ends the task,
\* at whichever attempt it comes, with final_status completed_no_changes and
\* the return value True; that attempt invokes neither the verifier nor any
\* git command and writes no file, but for the mark in TODO.md in backlog
\* mode.
C8_NoChangesNeeded ==
    C8_EmptyProposal =>
        /\ pc \in {"check_raw", "apply", "check_modified", "no_changes_todo",
                   "no_changes_status", "save_true", "returned"}
        /\ \A i \in EventsOfAttempt(attempt + 1) :
              /\ events[i].ev \in {"generate", "mark", "save"}
              /\ events[i].ev = "mark" => (update_todo /\ events[i].path = TodoPath)
        /\ \A p \in Paths : p \in Uncommitted(tree) =>
              \E i \in EventsNamed({"write"}) :
                 events[i].path = p /\ events[i].attempt < attempt + 1
        /\ ~update_todo => tree[TodoPath] = "clean"
        /\ pc \in {"save_true", "returned"} =>
              log_entry.final_status = "completed_no_changes"
        /\ Returned =>
              /\ result = "True"
              /\ Len(logs) = 1
              /\ logs[1].final_status = "completed_no_changes"

\* The empty proposal came in the second attempt of a backlog-mode task and
\* the task has returned.
C8_Witness ==
    /\ C8_EmptyProposal
    /\ Returned
    /\ attempt = 1
    /\ update_todo
    /\ tree[TodoPath] = "modified"

----------------------------------------------------------------------------
(* C9 *)

\* C9: when the generator's response of attempt k failed to parse, attempt k
\* writes no file and invokes neither the verifier nor git; if k < N the
\* task goes on to attempt k+1 with the fixed 'respond with valid JSON'
\* instruction as error_context, and if k = N it ends with final_status
\* failed_json_parsing and the return value False.
C9_ParseFailure ==
    \A k \in DOMAIN Recorded :
        LET instruction ==
               << "LLM response was not valid JSON. Please respond with valid JSON format." >>
        IN  Recorded[k].has_raw_response =>
               /\ \A i \in EventsOfAttempt(k) : events[i].ev \in {"generate", "save"}
               /\ (k < N /\ Len(Recorded) > k) =>
                     Recorded[k + 1].error_context = instruction
               /\ (k < N /\ Len(Recorded) = k) =>
                     /\ pc \in {"check_raw", "loop", "generate", "log_attempt", "raised"}
                     /\ pc \in {"loop", "generate", "log_attempt"} =>
                           (attempt = k /\ error_context = instruction)
               /\ k >= N =>
                     /\ k = N
                     /\ pc \in {"check_raw", "json_status", "json_message",
                                "save_false", "returned"}
                     /\ pc \in {"save_false", "returned"} =>
                           log_entry.final_status = "failed_json_parsing"
                     /\ Returned =>
                           /\ result = "False"
                           /\ logs[1].final_status = "failed_json_parsing"

\* With bound 3: a parse failure in attempt 1 was retried, and the parse
\* failure of attempt 3 ended the task.
C9_Witness ==
    /\ Returned
    /\ N = 3
    /\ Len(Recorded) = 3
    /\ Recorded[1].has_raw_response
    /\ Recorded[3].has_raw_response
    /\ Recorded[2].error_context[1] =
          "LLM response was not valid JSON. Please respond with valid JSON format."

----------------------------------------------------------------------------
(* C10 *)

\* A git add, commit or push of git_add_commit_push exited non-zero.
C10_CommitFailed ==
    \E i \in EventsNamed({"add", "commit", "push"}) : events[i].rc # 0

\* C10: a failed git_add_commit_push is fatal at once and is not rolled
\* back: the task ends with final_status failed_commit and the return value
\* False, no `git checkout .` is issued, no further generation is made even
\* if attempts remain, and TODO.md is not marked.
C10_CommitFailureIsFatal ==
    C10_CommitFailed =>
        /\ pc \in {"commit_fail_status", "commit_fail_message", "save_false", "returned"}
        /\ \A i \in EventsNamed({"add", "commit", "push"}) :
              events[i].rc # 0 =>
                 \A j \in (i + 1)..Len(events) : events[j].ev = "save"
        /\ EventsNamed({"mark"}) = {}
        /\ tree[TodoPath] = "clean"
        /\ GeneratorCalls = attempt + 1
        /\ pc \in {"commit_fail_message", "save_false", "returned"} =>
              log_entry.final_status = "failed_commit"
        /\ Returned =>
              /\ result = "False"
              /\ logs[1].final_status = "failed_commit"

\* The push failed in the first attempt of a backlog-mode task with bound 3:
\* two attempts remained and the task has returned.
C10_Witness ==
    /\ Returned
    /\ N = 3
    /\ attempt = 0
    /\ update_todo
    /\ \E i \in EventsNamed({"push"}) : events[i].rc # 0

----------------------------------------------------------------------------
(* C11 *)

\* The proposal of the attempt in progress has been applied, it lists at
\* least one file, and every entry is a modify without content or has an
\* action other than create and modify.
C11_NothingApplied ==
    /\ pc \notin {"log_attempt", "check_raw", "apply"}
    /\ implementation.has_files
    /\ implementation.files # <<>>
    /\ \A i \in DOMAIN implementation.files :
          LET f == implementation.files[i]
          IN  /\ f.path # NoPath
              /\ \/ f.action = "modify" /\ f.content = Absent
                 \/ f.action \notin {"create", "modify"}

\* C11: when a parsed proposal lists files but apply_implementation writes
\* none of them, the task ends at that attempt, even if attempts remain, with
\* final_status failed_implementation_error and the return value False; the
\* attempt invokes neither the verifier nor any git command and no further
\* generation is made.
C11_ApplyErrorIsFatal ==
    C11_NothingApplied =>
        /\ pc \in {"check_modified", "impl_error_status", "impl_error_message",
                   "save_false", "returned"}
        /\ modified_files = <<>>
        /\ \A i \in EventsOfAttempt(attempt + 1) : events[i].ev \in {"generate", "save"}
        /\ GeneratorCalls = attempt + 1
        /\ pc \in {"impl_error_message", "save_false", "returned"} =>
              log_entry.final_status = "failed_implementation_error"
        /\ Returned =>
              /\ result = "False"
              /\ logs[1].final_status = "failed_implementation_error"

\* With bound 3 the first attempt's proposal was applied without a write and
\* the task has returned: two attempts remained.
C11_Witness ==
    /\ C11_NothingApplied
    /\ Returned
    /\ N = 3
    /\ attempt = 0
    /\ Len(implementation.files) = 2

----------------------------------------------------------------------------
(* C12 *)

\* The message the code appends for a failure status (agent.py:83, 108, 120,
\* 158); failed_unknown has none.
C12_Describes(status, message) ==
    CASE status = "failed_json_parsing" ->
            message = << "Failed to parse LLM response as JSON" >>
      [] status = "failed_implementation_error" ->
            message = << "No files were modified but implementation indicated changes were needed" >>
      [] status = "failed_commit" ->
            message = << "Git commit/push failed" >>
      [] status = "failed_verification" ->
            /\ Len(message) = 2
            /\ message[1] = "Verification error: "
            /\ \E i \in EventsNamed({"verify"}) :
                  /\ events[i].rc # 0
                  /\ events[i].attempt = GeneratorCalls
                  /\ events[i].text = message[2]
      [] OTHER -> FALSE

\* A TaskLog with a failed_* status holds at least one message, and its last
\* message describes the failure of that status.
C12_HasFailureMessage(entry) ==
    entry.final_status \in
        {"failed_json_parsing", "failed_verification", "failed_implementation_error",
         "failed_commit", "failed_unknown"} =>
        /\ entry.error_messages # <<>>
        /\ C12_Describes(entry.final_status,
                         entry.error_messages[Len(entry.error_messages)])

\* C12: every persisted TaskLog whose final_status is one of the failed_*
\* values has a non-empty error_messages whose last message describes the
\* failure that ended the task; the message is in the log before the log is
\* persisted.
C12_FailureHasMessage ==
    /\ \A i \in DOMAIN logs : C12_HasFailureMessage(logs[i])
    /\ pc = "save_false" => C12_HasFailureMessage(log_entry)

\* A task that failed its first verification and ended in an apply error:
\* the persisted log holds both messages.
C12_Witness ==
    /\ Returned
    /\ Len(logs) = 1
    /\ logs[1].final_status = "failed_implementation_error"
    /\ Len(logs[1].error_messages) = 2

----------------------------------------------------------------------------
(* C14 *)

C14_Marks == EventsNamed({"mark"})

----------------------------------------------------------------------------
(* C20 *)

\* The paths of the calls named `name` made in attempt k, in order.
C20_PathsOf(name, k) ==
    LET sel == SelectSeq(events, LAMBDA e : e.ev = name /\ e.attempt = k)
    IN  [i \in DOMAIN sel |-> sel[i].path]

\* C20: the `git add` calls of an attempt name, in order, the files
\* apply_implementation wrote in that attempt and nothing else; `git commit
\* -m` is issued at most once, with the proposal's commit_message, after every
\* written file was added with exit 0; once an add exits non-zero no further
\* add, no commit and no push is issued and the task returns False.
C20_StagesExactlyModified ==
    \A k \in 1..(attempt + 1) :
        LET added   == C20_PathsOf("add", k)
            written == C20_PathsOf("write", k)
            commitsOf == EventsNamed({"commit"}) \cap EventsOfAttempt(k)
            failedAdds == {i \in EventsNamed({"add"}) \cap EventsOfAttempt(k) :
                              events[i].rc # 0}
        IN  /\ Len(added) <= Len(written)
            /\ added = SubSeq(written, 1, Len(added))
            /\ Cardinality(commitsOf) <= 1
            /\ \A c \in commitsOf :
                  /\ added = written
                  /\ failedAdds = {}
                  /\ events[c].text = "msg"
                  /\ \A i \in EventsNamed({"add"}) \cap EventsOfAttempt(k) : i < c
            /\ \A i \in EventsNamed({"push", "decline_push"}) \cap EventsOfAttempt(k) :
                  \E c \in commitsOf : c < i /\ events[c].rc = 0
            /\ \A i \in failedAdds :
                  /\ \A j \in (i + 1)..Len(events) : events[j].ev = "save"
                  /\ Returned => result = "False"
            /\ (pc = "commit" /\ k = attempt + 1) => modified_files = written

\* Two files were written; the first add exited 0, the second did not, and
\* the task has returned.
C20_Witness ==
    /\ Returned
    /\ C20_PathsOf("write", attempt + 1) = << 1, 2 >>
    /\ C20_PathsOf("add", attempt + 1) = << 1, 2 >>
    /\ \E i \in EventsNamed({"add"}) : events[i].path = 2 /\ events[i].rc # 0
    /\ \E i \in EventsNamed({"add"}) : events[i].path = 1 /\ events[i].rc = 0

----------------------------------------------------------------------------
(* Vocabulary of the backlog claims: a document read line by line          *)

\* str.split("\n")
RECURSIVE LinesOf(_)
LinesOf(content) ==
    IF \A i \in DOMAIN content : content[i] # Newline THEN << content >>
    ELSE LET n == Min({ i \in DOMAIN content : content[i] = Newline })
         IN  << SubSeq(content, 1, n - 1) >>
                \o LinesOf(SubSeq(content, n + 1, Len(content)))

\* The text after position i on the line of position i, stripped.
RestOfLine(content, i) ==
    LET ends == { e \in i..Len(content) :
                     /\ \A m \in (i + 1)..e : content[m] # Newline
                     /\ e = Len(content) \/ content[e + 1] = Newline }
    IN  strip(SubSeq(content, i + 1, Min(ends)))

PositionsOf(content, token) == { i \in DOMAIN content : content[i] = token }

\* The description of an unchecked item: what follows the checkbox, and the
\* NEXT STEP marker if the item carries one.
ItemDescription(line) ==
    LET rest == strip(Tail(line))
    IN  IF rest # <<>> /\ Head(rest) = NextStep THEN strip(Tail(rest)) ELSE rest

IsUncheckedItem(line) == line # <<>> /\ Head(line) = Unchecked

----------------------------------------------------------------------------
(* C15 *)

\* C15: backlog round trip.  When extract_next_task returned a task t,
\* whether from the NEXT STEP marker or as the first unchecked item, and
\* update_todo_mark_complete was called with t's description, the next
\* extract_next_task does not return a task with t's description.
C15_RoundTrip ==
    ( /\ agent_pc = "extracted_again"
      /\ marked.made
      /\ marked.task.found
      /\ marked.description = marked.task.description
      /\ task.found )
    => task.description # marked.task.description

----------------------------------------------------------------------------
(* C18 *)

\* C18: task selection priority.  When the backlog holds a NEXT STEP
\* marker, extract_next_task returns the description that follows the first
\* one on its line, wherever the unchecked items are; otherwise it returns
\* the description of the topmost unchecked item; it returns no task exactly
\* when the backlog holds neither.
C18_SelectionPriority ==
    agent_pc \in {"extracted", "extracted_again"} =>
        LET markers == PositionsOf(todo, NextStep)
            items   == PositionsOf(todo, Unchecked)
        IN  IF markers # {}
            THEN /\ task.found
                 /\ task.type = "next_step"
                 /\ task.description = RestOfLine(todo, Min(markers))
            ELSE IF items # {}
            THEN /\ task.found
                 /\ task.type = "unchecked"
                 /\ task.description = RestOfLine(todo, Min(items))
            ELSE task = NoTask

----------------------------------------------------------------------------
(* C19 *)

\* C19: update_todo_mark_complete(d) rewrites in place the lines of the
\* unchecked items whose description is d, to their checked form, and leaves
\* every other line as it was, the items whose description only begins with
\* d included; when no item has the description d the document is unchanged.
C19_OnlyMatchedLine ==
    agent_pc = "marked" =>
        LET before == LinesOf(marked.content)
            after  == LinesOf(todo)
            d      == marked.description
        IN  /\ Len(after) = Len(before)
            /\ \A i \in DOMAIN before :
                  IF IsUncheckedItem(before[i]) /\ ItemDescription(before[i]) = d
                  THEN /\ after[i] # <<>>
                       /\ Head(after[i]) = Checked
                       /\ after[i][Len(after[i])] = before[i][Len(before[i])]
                  ELSE i \in DOMAIN after /\ after[i] = before[i]

----------------------------------------------------------------------------
(* Vocabulary of the run_agent claims                                      *)

CallsMade == { calls[i] : i \in DOMAIN calls }
InTask == agent_pc \in {"attempt", "verify", "commit", "after"}

----------------------------------------------------------------------------
(* C13 *)

\* C13: fail-fast backlog mode.  Once a task's run_single_task has returned
\* False in backlog mode, run_agent goes to its end and does nothing else: no
\* task is extracted, no generator, verifier or git call and no file write is
\* made, and TODO.md is not modified.
C13_FailFast ==
    [][(mode = "backlog" /\ result = "False" /\ agent_pc \in {"after", "finished"}) =>
          /\ agent_pc' = "finished"
          /\ calls' = calls
          /\ todo' = todo
          /\ tree' = tree
          /\ commits' = commits
          /\ task' = task
          /\ iteration' = iteration]_vars

\* The second task of a backlog run failed and the run has stopped, with an
\* iteration left and a task still to be extracted from TODO.md.
C13_Witness ==
    /\ mode = "backlog"
    /\ agent_pc = "finished"
    /\ result = "False"
    /\ iteration = 1
    /\ max_iterations = 2
    /\ extract_next_task(todo).found

----------------------------------------------------------------------------
(* C16 *)

\* C16: backlog mode is bounded and terminates.  run_single_task is entered
\* in at most max_iterations iterations; the iteration in which
\* extract_next_task finds no task ends the run without a call of the
\* generator; and every run goes on until it reaches the 'Agent finished'
\* end of run_agent: a run that is not there has a next step.
C16_BoundedAndTerminates ==
    mode = "backlog" =>
        /\ iteration <= max_iterations
        /\ (InTask \/ agent_pc = "raised") => iteration < max_iterations
        /\ (calls # <<>> /\ ~task.found) =>
              /\ agent_pc = "finished"
              /\ calls = << "extract_next_task" >>
        /\ agent_pc = "finished" \/ ENABLED AgentNext

----------------------------------------------------------------------------
(* C17 *)

\* C17: in manual and interactive mode run_single_task is called with
\* update_todo=False: update_todo_mark_complete is never called, TODO.md is
\* neither read for a task nor written, and its content stays what it was,
\* whatever the outcome of the task; manual mode enters run_single_task
\* exactly once.
C17_NoBacklogSideEffects ==
    mode \in {"manual", "interactive"} =>
        /\ ~update_todo
        /\ ~marked.made
        /\ CallsMade \cap {"mark", "extract_next_task"} = {}
        /\ todo = << "- [ ]", " ", "a", "\n" >>
        /\ tree[TodoPath] = "clean"
        /\ mode = "manual" =>
              /\ iteration <= 1
              /\ iteration = 0 <=> agent_pc = "start"
              /\ agent_pc \in {"start", "attempt", "verify", "commit", "after",
                               "raised", "return"}

\* A manual task that is an unchecked item of TODO.md was committed and
\* run_agent has returned: the item is still unchecked.
C17_Witness ==
    /\ mode = "manual"
    /\ agent_pc = "return"
    /\ result = "True"
    /\ commits = 1
    /\ extract_next_task(todo).description = << "a" >>

----------------------------------------------------------------------------
(* C21 *)

\* The names of the calls git_add_commit_push makes.
C21_NamesIn(r) == { r.events[i].ev : i \in DOMAIN r.events }

\* C21: git push is issued only right after the git commit of the same
\* attempt exited zero; a declined confirmation (an answer other than y and
\* yes) follows such a commit, issues no push and the task goes on as a
\* success and returns True; and whatever the tree, the files and the exit
\* codes are when git_add_commit_push is called, with push disabled no push
\* and no confirmation is made, with confirmation enabled and a declining
\* answer no push is made and the function reports success after the commit,
\* and a push is made only with push enabled, every add and the commit having
\* exited zero.
C21_PushOptionalAfterCommit ==
    /\ \A i \in EventsNamed({"push", "decline_push"}) :
          /\ i > 1
          /\ events[i - 1].ev = "commit"
          /\ events[i - 1].rc = 0
          /\ events[i - 1].attempt = events[i].attempt
    /\ \A i \in EventsNamed({"decline_push"}) :
          /\ events[i].text \notin {"y", "yes"}
          /\ EventsNamed({"push"}) = {}
          /\ pc \in {"success_todo", "success_time", "success_status", "save_true",
                     "returned"}
          /\ Returned => result = "True"
    /\ pc = "commit" =>
          \A push \in BOOLEAN, confirm \in BOOLEAN, addFail \in 0..Len(modified_files),
             commitRc \in ExitCodes, pushRc \in ExitCodes,
             answer \in {"y", "yes", "n", ""} :
             LET r == git_add_commit_push(tree, modified_files, "msg", push, confirm,
                                          attempt + 1, addFail, commitRc, pushRc, answer)
                 declined == confirm /\ answer \notin {"y", "yes"}
             IN  /\ ~push => C21_NamesIn(r) \cap {"push", "decline_push"} = {}
                 /\ declined => "push" \notin C21_NamesIn(r)
                 /\ push /\ declined /\ addFail = 0 /\ commitRc = 0 =>
                       r.ok /\ "decline_push" \in C21_NamesIn(r)
                 /\ "push" \in C21_NamesIn(r) =>
                       push /\ ~declined /\ addFail = 0 /\ commitRc = 0

\* The operator declined the push after a commit and the task returned True.
C21_Witness ==
    /\ Returned
    /\ result = "True"
    /\ commits = 1
    /\ EventsNamed({"decline_push"}) # {}
    /\ EventsNamed({"push"}) = {}

----------------------------------------------------------------------------
(* C22 *)

\* C22: whatever the backend answers, the proposal generate_implementation
\* returns is one the pipeline processes without an exception, and a
\* response that is valid JSON but no object comes back marked parse-failed
\* (with the key raw_response).
C22_NeverCrashesPipeline ==
    /\ pc # "raised"
    /\ implementation.kind = "nonobject" => implementation.raw_response

----------------------------------------------------------------------------
(* C23 *)

\* C23: for every valid proposal object J, the response that holds J in a
\* fenced json block, with or without prose around it, gives the proposal
\* that the response J alone gives, also when the text of a file in J holds
\* a closing brace followed by a code fence.
C23_FencedSameAsAlone ==
    gen_pc = "returned" /\ backend.json # <<>> =>
        proposal = generate_implementation(backend.json)

----------------------------------------------------------------------------
(* C24 *)

\* The tree after the i-th rollback.
C24_After(i) == IF i < Len(rollbacks) THEN rollbacks[i + 1].before ELSE tree

----------------------------------------------------------------------------
(* C25 *)

\* The files of json_files of the given kinds.
C25_Count(kinds) ==
    Cardinality({ i \in DOMAIN json_files : json_files[i].kind \in kinds })

\* C25: whatever the log directory holds, analyze_logs returns normally, and
\* when it has returned after reading files, the TaskLogs among them are the
\* tasks it counted and every other file (unreadable, no JSON, JSON that is
\* no TaskLog) was skipped with one warning.
C25_NeverFailsOnCorruptRecords ==
    /\ analyzer_pc # "raised"
    /\ analyzer_pc = "returned" /\ file_index > 0 =>
          /\ stats.total_tasks = C25_Count({"tasklog"})
          /\ stats.warnings = C25_Count({"unreadable", "not_json", "list", "object"})

----------------------------------------------------------------------------
(* C26 *)

\* The text part is one of the parts of the error context ec.
C26_Includes(ec, part) == \E m \in DOMAIN ec : ec[m] = part

\* What attempt j feeds back: the fixed instruction after a parse failure,
\* the verifier's diagnostic after a failed verification.
C26_FeedbackOf(j) ==
    IF Recorded[j].has_raw_response
    THEN "LLM response was not valid JSON. Please respond with valid JSON format."
    ELSE "acorn output of attempt " \o ToString(j)

\* C26 as stated: the error context passed to the generator at attempt k
\* includes the feedback of every earlier attempt 1..k-1.
C26_AccumulatedFeedback ==
    \A k \in DOMAIN Recorded : \A j \in 1..(k - 1) :
        C26_Includes(Recorded[k].error_context, C26_FeedbackOf(j))

\* C26, amended: attempt 1 is given no error context, and the error context
\* passed to the generator at attempt k >= 2 is the feedback of attempt k-1
\* and nothing else: the fixed instruction when attempt k-1 failed to parse,
\* the verifier's diagnostic of attempt k-1 with the fix instruction when it
\* failed verification.
C26_LatestFeedbackOnly ==
    \A k \in DOMAIN Recorded :
        Recorded[k].error_context =
            IF k = 1 THEN <<>>
            ELSE IF Recorded[k - 1].has_raw_response
            THEN << C26_FeedbackOf(k - 1) >>
            ELSE << "Code verification failed with error:\n", C26_FeedbackOf(k - 1),
                    "\n\nPlease fix the errors." >>

\* Attempt 1 failed verification, attempt 2 failed to parse and attempt 3
\* was asked.
C26_Witness ==
    /\ Len(Recorded) = 3
    /\ ~Recorded[1].has_raw_response
    /\ Recorded[2].has_raw_response

----------------------------------------------------------------------------
(* C27 *)

\* C27: no file of a proposal is written into the working tree unless a
\* verifier run on the candidate outside the working tree has passed earlier
\* in the same attempt.
C27_ValidatedInIsolation ==
    \A i \in EventsNamed({"write"}) :
        \E j \in 1..(i - 1) :
            /\ events[j].ev = "test_in_external_file"
            /\ events[j].attempt = events[i].attempt
            /\ events[j].rc = 0

----------------------------------------------------------------------------
(* C28 *)

\* The place of a call in an attempt: generate, (record), write, verify,
\* then commit or rollback, then the mark and the save that end the task.
C28_Stage(name) ==
    CASE name = "generate" -> 1
      [] name = "write" -> 3
      [] name = "verify" -> 4
      [] name \in {"add", "commit", "push", "decline_push", "checkout"} -> 5
      [] name = "mark" -> 6
      [] OTHER -> 7

\* C28: the calls of a run are in the order of the attempts and, within an
\* attempt, in the order generate, write, verify, then either commit (add,
\* commit, push) or rollback: an attempt begins with its generate, a write
\* follows the generate or a write, the verify follows the last write, an add
\* follows the verify that passed or an add, the commit follows the last add
\* that exited zero, the push or the declined confirmation follows the
\* commit, the rollback follows the verify that failed, and each of
\* generate, verify, commit, push and rollback is made once at most; the
\* attempt is recorded in the TaskLog after its generate has returned and
\* before any of its files is written.
C28_StageOrder ==
    /\ events # <<>> => events[1].ev \in {"generate", "save"}
    /\ \A i \in 1..(Len(events) - 1) :
          LET a == events[i]
              b == events[i + 1]
          IN  /\ a.attempt <= b.attempt
              /\ a.attempt < b.attempt => b.ev \in {"generate", "save"}
              /\ a.attempt = b.attempt =>
                    /\ b.ev # "generate"
                    /\ C28_Stage(a.ev) <= C28_Stage(b.ev)
              /\ b.ev = "write" => a.ev \in {"generate", "write"}
              /\ b.ev = "verify" => a.ev = "write"
              /\ b.ev = "add" => a.rc = 0 /\ a.ev \in {"verify", "add"}
              /\ b.ev = "commit" => a.rc = 0 /\ a.ev = "add"
              /\ b.ev \in {"push", "decline_push"} => a.rc = 0 /\ a.ev = "commit"
              /\ b.ev = "checkout" => a.rc # 0 /\ a.ev = "verify"
              /\ b.ev \in {"write", "verify", "add", "commit", "push", "decline_push",
                           "checkout"} => a.attempt = b.attempt
    /\ \A i \in EventsNamed({"write", "verify", "add", "commit", "push", "checkout"}) :
          Len(Recorded) >= events[i].attempt
    /\ pc = "log_attempt" =>
          /\ events[Len(events)].ev = "generate"
          /\ events[Len(events)].attempt = attempt + 1
          /\ Len(Recorded) = attempt
    /\ pc \in {"check_raw", "apply"} =>
          /\ events[Len(events)].ev = "generate"
          /\ Len(Recorded) = attempt + 1

\* A run whose first attempt went generate, record, write, verify, rollback
\* and whose second went generate, record, write, verify, commit.
C28_Witness ==
    /\ Returned
    /\ Len(Recorded) = 2
    /\ \E i \in EventsNamed({"checkout"}) : events[i].attempt = 1
    /\ \E i \in EventsNamed({"commit"}) : events[i].attempt = 2 /\ events[i].rc = 0

----------------------------------------------------------------------------
(* C29 *)

\* The checked items of a backlog.
C29_CheckedLines(content) ==
    { LinesOf(content)[i] : i \in { n \in DOMAIN LinesOf(content) :
          LinesOf(content)[n] # <<>> /\ Head(LinesOf(content)[n]) = Checked } }

\* C29: in a backlog run an item that is checked in TODO.md stays checked in
\* every later state of the run, whatever a later task does, rollbacks
\* included; and an item the last mark has checked is not the task the next
\* iteration extracts.
C29_MarkStays ==
    [][ mode = "backlog" =>
          /\ C29_CheckedLines(todo) \subseteq C29_CheckedLines(todo')
          /\ (/\ agent_pc = "extract"
              /\ agent_pc' = "attempt"
              /\ marked.made
              /\ C29_CheckedLines(marked.content) # C29_CheckedLines(todo))
             => task'.description # marked.description ]_vars

----------------------------------------------------------------------------
(* C30 *)

\* C30: when the task has ended, a path of a proposal holds content that is
\* not committed only if the final status is failed_commit.
C30_UncommittedOnlyAfterFailedCommit ==
    pc \in {"returned", "raised"} =>
        (Uncommitted(tree) \cap Paths # {} => log_entry.final_status = "failed_commit")

----------------------------------------------------------------------------
(* C31 *)

\* C31: a task that has ended with a failed_* final status created no
\* commit: no `git commit` of the task exited zero and the history of the
\* repository is as it was before the task.
C31_FailedTaskMadeNoCommit ==
    (/\ Returned
     /\ log_entry.final_status \in {"failed_json_parsing", "failed_implementation_error",
                                    "failed_verification", "failed_commit",
                                    "failed_unknown"})
    => /\ commits = 0
       /\ \A i \in EventsNamed({"commit"}) : events[i].rc # 0

----------------------------------------------------------------------------
(* C32 *)

\* The paths of the entries the claim has written and listed: every create
\* entry and every modify entry with content, in proposal order.
C32_Listed(files) ==
    LET kept == SelectSeq(files, LAMBDA f :
                    f.action = "create" \/ (f.action = "modify" /\ f.content # Absent))
    IN  [i \in DOMAIN kept |-> kept[i].path]

\* The paths written during attempt k, in the order of the writes.
WrittenIn(k) ==
    LET ws == SelectSeq(events, LAMBDA e : e.ev = "write" /\ e.attempt = k)
    IN  [i \in DOMAIN ws |-> ws[i].path]

\* C32: once apply_implementation has been called on a proposal, it has
\* returned the list of the paths it wrote: the paths of the create entries
\* and of the modify entries with content, in proposal order, each written
\* once, and nothing else written.
C32_ReturnsExactlyWhatItWrote ==
    (\/ pc = "check_modified"
     \/ pc = "raised" /\ implementation.kind # "nonobject")
    => /\ pc = "check_modified"
       /\ modified_files = C32_Listed(FilesOf(implementation))
       /\ WrittenIn(attempt + 1) = modified_files

----------------------------------------------------------------------------
(* C33 *)

\* C33: there is one attempt record per generation: once log_attempt has
\* been called for the latest generation, the TaskLog holds as many attempt
\* records as the generator has been invoked for the task, the records are
\* numbered 1, 2, ..., k in order, and the first one carries no error
\* context.
C33_OneRecordPerGeneration ==
    /\ pc # "log_attempt" => Len(Recorded) = GeneratorCalls
    /\ \A i \in DOMAIN Recorded : Recorded[i].attempt = i
    /\ Recorded # <<>> => Recorded[1].error_context = <<>>

----------------------------------------------------------------------------
(* C34 *)

\* The attempts of the task that wrote at least one file.
C34_WritingAttempts == { events[i].attempt : i \in EventsNamed({"write"}) }

\* C34: the files_modified field of a persisted TaskLog is the list of the
\* paths written by the last attempt that wrote a file, and is empty exactly
\* when no attempt wrote one; a rollback does not clear it, so the TaskLog of
\* a task that has rolled back carries a non-empty list.
C34_FilesModifiedOfLastWritingAttempt ==
    \A i \in DOMAIN logs :
        /\ IF C34_WritingAttempts = {}
           THEN logs[i].files_modified = <<>>
           ELSE LET last == CHOOSE k \in C34_WritingAttempts :
                                \A m \in C34_WritingAttempts : m <= k
                IN  /\ logs[i].files_modified = WrittenIn(last)
                    /\ logs[i].files_modified # <<>>
        /\ EventsNamed({"checkout"}) # {} => logs[i].files_modified # <<>>
        /\ logs[i].final_status = "failed_verification" => logs[i].files_modified # <<>>

\* A task whose first attempt wrote a file, failed verification and was
\* rolled back with exit 0, and whose last attempt failed to parse: the
\* persisted TaskLog lists the discarded write.
C34_Witness ==
    /\ Returned
    /\ logs # <<>>
    /\ logs[1].final_status = "failed_json_parsing"
    /\ logs[1].files_modified # <<>>
    /\ \E i \in EventsNamed({"checkout"}) : events[i].attempt = 1 /\ events[i].rc = 0
    /\ \A p \in Paths : tree[p] # "modified"

----------------------------------------------------------------------------
(* C35 *)

\* C35: for every attempt bound N >= 1 the final status failed_unknown is
\* never set: the loop header is reached with attempts left only, so the
\* fall-through after the loop is not executed, and a task that has returned
\* carries one of the six other statuses.
C35_FailedUnknownUnreachable ==
    /\ log_entry.final_status # "failed_unknown"
    /\ pc = "loop" => attempt < N
    /\ Returned =>
          /\ logs # <<>>
          /\ logs[Len(logs)].final_status \in
                 {"completed_successfully", "completed_no_changes",
                  "failed_json_parsing", "failed_implementation_error",
                  "failed_verification", "failed_commit"}

\* A task that used the whole attempt bound N = 3: its third attempt failed
\* and it has returned.
C35_Witness ==
    /\ Returned
    /\ N = 3
    /\ attempt = 2
    /\ Len(Recorded) = 3
    /\ result = "False"

----------------------------------------------------------------------------
(* C36 *)

\* The first parts of the messages run_single_task appends to
\* error_messages (agent.py:83, 108, 120, 158).
C36_KnownMessages ==
    { "Failed to parse LLM response as JSON",
      "No files were modified but implementation indicated changes were needed",
      "Verification error: ",
      "Git commit/push failed" }

\* C36: whatever `git checkout .` exits with, the rollback of attempt k is
\* followed by the generation of attempt k+1, with the verifier's output as
\* error context, when k < N, and by final_status failed_verification when
\* k = N; the exit code appears neither in final_status nor in
\* error_messages.
C36_RollbackStatusIgnored ==
    /\ \A i \in EventsNamed({"checkout"}) :
          LET k == events[i].attempt
          IN  /\ k < N =>
                    IF i < Len(events)
                    THEN events[i + 1].ev = "generate" /\ events[i + 1].attempt = k + 1
                    ELSE /\ pc \in {"loop", "generate"}
                         /\ attempt = k
                         /\ error_context = << "Code verification failed with error:\n",
                                               OutputOf(k), "\n\nPlease fix the errors." >>
              /\ k >= N =>
                    /\ k = N
                    /\ IF i < Len(events)
                       THEN /\ i + 1 = Len(events)
                            /\ events[i + 1].ev = "save"
                            /\ events[i + 1].text = "failed_verification"
                            /\ result = "False"
                       ELSE /\ pc \in {"verification_status", "save_false"}
                            /\ log_entry.final_status \in {None, "failed_verification"}
    /\ \A j \in DOMAIN log_entry.error_messages :
          log_entry.error_messages[j][1] \in C36_KnownMessages
    /\ Cardinality({ j \in DOMAIN log_entry.error_messages :
                        log_entry.error_messages[j][1] = "Verification error: " })
          <= Cardinality({ i \in EventsNamed({"verify"}) : events[i].rc # 0 })

\* With bound 2: the rollback of attempt 1 exited non-zero and attempt 2 was
\* generated all the same; the rollback of attempt 2 exited non-zero too and
\* the task ended with failed_verification, the writes still in the tree.
C36_Witness ==
    /\ Returned
    /\ N = 2
    /\ \A i \in EventsNamed({"checkout"}) : events[i].rc # 0
    /\ Cardinality(EventsNamed({"checkout"})) = 2
    /\ logs[1].final_status = "failed_verification"
    /\ \E p \in Paths : tree[p] = "modified"
    /\ Len(logs[1].error_messages) = 2

----------------------------------------------------------------------------
(* C37 *)

\* C37: interactive mode is left through the quit input or the keyboard
\* interrupt only: an interactive run is at the prompt, inside a task, back
\* from a task on its way to the next prompt, or has returned through one of
\* the two exits; an empty input has started no task.
C37_InteractiveKeepsGoing ==
    mode = "interactive" =>
        /\ agent_pc \in {"start", "input", "attempt", "verify", "commit", "after", "return"}
        /\ (agent_pc = "input" /\ iteration = 0) => calls = <<>>

----------------------------------------------------------------------------
(* C38 *)

\* C38: once a task of the standalone driver has failed, the outer loop has
\* stopped: the driver is at the loop header, which ends the loop, or has
\* finished; it extracts no task and asks the generator for nothing any
\* more.
C38_StandaloneFailFast ==
    (mode = "standalone" /\ result = "False") =>
        agent_pc \in {"loop", "finished"}

----------------------------------------------------------------------------
(* C39 *)

\* The bound of each loading function: the one it reads with, and for the
\* package's function the one its comment names.
C39_Limit == IF loader = "acorn_agent" THEN 30000 ELSE 20000

\* C39: for every length of the context file the documentation part of the
\* context is at most the bound long, and it says that it was truncated
\* exactly when less was read than the file holds.
C39_DocsBoundedAndMarked ==
    (ctx_pc = "loaded" /\ docs.included) =>
        /\ docs.length <= C39_Limit
        /\ docs.says_truncated <=> docs.read < context_file.length

====
